---------------------------- MODULE Spec2Model ----------------------------
(***************************************************************************)
(* FlowKey: the workflow-diagram generation pipeline.                      *)
(*                                                                         *)
(* The model covers src/src/lib/gemini.ts (the retry orchestrator          *)
(* generateMermaidScriptFromConversation, the attempt executor             *)
(* attemptMermaidGeneration with its timeout race, and the error mappers)  *)
(* and src/src/config/workflow.ts (configuration, user messages, prompt    *)
(* selection, validateMermaidScript, cleanMermaidScript), then the         *)
(* history store src/src/lib/historyStorage.ts, the HomePage component     *)
(* (src/unnamed/part_001) and the ChatMessage component                    *)
(* (src/unnamed/part_000) that shows the generated diagrams.               *)
(*                                                                         *)
(* JavaScript strings are modelled as sequences of one-character strings,  *)
(* so that trimming, substring tests and the regular expressions of the    *)
(* source are computed on the characters as the code computes them.        *)
(***************************************************************************)
EXTENDS Integers, Sequences, FiniteSets, TLC

(***************************************************************************)
(* String primitives (String.prototype.trim / toLowerCase / startsWith /   *)
(* includes, and the \s and . classes of the regular expressions).         *)
(***************************************************************************)
\* the grave accent, which a TLA+ string literal cannot contain
Backtick == "GRAVE"

IsWhitespace(c) == c \in {" ", "\n", "\t", "\r"}

IsLineTerminator(c) == c \in {"\n", "\r"}

MinOf(S) == CHOOSE x \in S : \A y \in S : x <= y

TrimStart(s) ==
    IF \A i \in 1..Len(s) : IsWhitespace(s[i]) THEN << >>
    ELSE SubSeq(s, CHOOSE i \in 1..Len(s) :
                      /\ ~IsWhitespace(s[i])
                      /\ \A k \in 1..(i - 1) : IsWhitespace(s[k]),
                Len(s))

TrimEnd(s) ==
    IF \A i \in 1..Len(s) : IsWhitespace(s[i]) THEN << >>
    ELSE SubSeq(s, 1, CHOOSE j \in 1..Len(s) :
                         /\ ~IsWhitespace(s[j])
                         /\ \A k \in (j + 1)..Len(s) : IsWhitespace(s[k]))

Trim(s) == TrimEnd(TrimStart(s))

UpperLetters == <<"A","B","C","D","E","F","G","H","I","J","K","L","M","N","O","P","Q","R","S","T","U","V","W",
    "X","Y","Z">>

LowerLetters == <<"a","b","c","d","e","f","g","h","i","j","k","l","m","n","o","p","q","r","s","t","u","v","w",
    "x","y","z">>

LowerOf == [c \in {UpperLetters[k] : k \in 1..26} |->
                LowerLetters[CHOOSE k \in 1..26 : UpperLetters[k] = c]]

LowerChar(c) == IF c \in DOMAIN LowerOf THEN LowerOf[c] ELSE c

ToLowerCase(s) == [i \in 1..Len(s) |-> LowerChar(s[i])]

\* the characters of s from position pos on are those of p
MatchAt(s, pos, p) ==
    /\ pos >= 1
    /\ pos + Len(p) - 1 <= Len(s)
    /\ \A k \in 1..Len(p) : s[pos + k - 1] = p[k]

StartsWith(s, p) == MatchAt(s, 1, p)

Includes(s, p) == \E i \in 1..(Len(s) - Len(p) + 1) : MatchAt(s, i, p)

\* mutant: the g flag is missing, so match returns the first match only
CountCharNoGlobalFlag(s, c) == IF \E i \in 1..Len(s) : s[i] = c THEN 1 ELSE 0

\* number of occurrences of the character c: (s.match(/c/g) || []).length
CountChar(s, c) == Cardinality({i \in 1..Len(s) : s[i] = c})

(***************************************************************************)
(* Configuration (workflow.ts, mermaidGenerationConfig).                   *)
(***************************************************************************)
maxRetryAttempts == 3

minScriptLength == 20

maxScriptLength == 5000

validDiagramTypes ==
    { <<"g","r","a","p","h">>, <<"f","l","o","w","c","h","a","r","t">>, <<"s","e","q","u","e","n","c","e","D","i","a","g","r","a","m">>, <<"c","l","a","s","s","D","i","a","g","r","a","m">>,
      <<"s","t","a","t","e","D","i","a","g","r","a","m">>, <<"e","r","D","i","a","g","r","a","m">>, <<"j","o","u","r","n","e","y">>, <<"g","a","n","t","t">>,
      <<"p","i","e">>, <<"q","u","a","d","r","a","n","t","C","h","a","r","t">>, <<"r","e","q","u","i","r","e","m","e","n","t">>, <<"g","i","t","g","r","a","p","h">>,
      <<"m","i","n","d","m","a","p">>, <<"t","i","m","e","l","i","n","e">>, <<"z","e","n","u","m","l">>, <<"s","a","n","k","e","y">> }

NO_DIAGRAM == <<"N","O","_","D","I","A","G","R","A","M">>

(***************************************************************************)
(* userMessages (workflow.ts).                                             *)
(***************************************************************************)
userMessages ==
    [ generationStarted |->
        <<"G","e","n","e","r","a","t","i","n","g"," ","w","o","r","k","f","l","o","w"," ","d","i","a",
    "g","r","a","m",".",".",".">>,
      retryingGeneration |->
        <<"R","e","t","r","y","i","n","g"," ","w","i","t","h"," ","s","i","m","p","l","i","f","i","e",
    "d"," ","a","p","p","r","o","a","c","h",".",".",".">>,
      generationSuccess |->
        <<"W","o","r","k","f","l","o","w"," ","d","i","a","g","r","a","m"," ","g","e","n","e","r","a",
    "t","e","d"," ","s","u","c","c","e","s","s","f","u","l","l","y","!">>,
      noDiagramPossible |->
        <<"U","n","a","b","l","e"," ","t","o"," ","c","r","e","a","t","e"," ","a"," ","m","e","a","n",
    "i","n","g","f","u","l"," ","w","o","r","k","f","l","o","w"," ","d","i","a","g","r","a","m",
    " ","f","r","o","m"," ","t","h","i","s"," ","c","o","n","v","e","r","s","a","t","i","o","n",
    "."," ","P","l","e","a","s","e"," ","t","r","y"," ","d","i","s","c","u","s","s","i","n","g",
    " ","s","p","e","c","i","f","i","c"," ","p","r","o","c","e","s","s","e","s"," ","o","r"," ",
    "s","t","e","p","s",".">>,
      generationFailed |->
        <<"F","a","i","l","e","d"," ","t","o"," ","g","e","n","e","r","a","t","e"," ","w","o","r","k",
    "f","l","o","w"," ","d","i","a","g","r","a","m","."," ","P","l","e","a","s","e"," ","t","r",
    "y"," ","a","g","a","i","n",".">>,
      validationFailed |->
        <<"G","e","n","e","r","a","t","e","d"," ","d","i","a","g","r","a","m"," ","c","o","n","t","a",
    "i","n","s"," ","s","y","n","t","a","x"," ","e","r","r","o","r","s"," ","a","n","d"," ","c",
    "a","n","n","o","t"," ","b","e"," ","d","i","s","p","l","a","y","e","d",".">>,
      authenticationError |->
        <<"A","u","t","h","e","n","t","i","c","a","t","i","o","n"," ","f","a","i","l","e","d","."," ",
    "P","l","e","a","s","e"," ","c","h","e","c","k"," ","y","o","u","r"," ","A","P","I"," ","c",
    "o","n","f","i","g","u","r","a","t","i","o","n",".">>,
      rateLimitError |->
        <<"R","a","t","e"," ","l","i","m","i","t"," ","e","x","c","e","e","d","e","d","."," ","P","l",
    "e","a","s","e"," ","w","a","i","t"," ","a"," ","m","o","m","e","n","t"," ","b","e","f","o",
    "r","e"," ","t","r","y","i","n","g"," ","a","g","a","i","n",".">>,
      networkError |->
        <<"N","e","t","w","o","r","k"," ","e","r","r","o","r"," ","o","c","c","u","r","r","e","d",".",
    " ","P","l","e","a","s","e"," ","c","h","e","c","k"," ","y","o","u","r"," ","c","o","n","n",
    "e","c","t","i","o","n"," ","a","n","d"," ","t","r","y"," ","a","g","a","i","n",".">>,
      timeoutError |->
        <<"D","i","a","g","r","a","m"," ","g","e","n","e","r","a","t","i","o","n"," ","t","i","m","e",
    "d"," ","o","u","t","."," ","P","l","e","a","s","e"," ","t","r","y"," ","a","g","a","i","n",
    " ","w","i","t","h"," ","a"," ","s","i","m","p","l","e","r"," ","r","e","q","u","e","s","t",
    ".">>,
      noContentError |->
        <<"N","o"," ","c","o","n","v","e","r","s","a","t","i","o","n"," ","c","o","n","t","e","n","t",
    " ","a","v","a","i","l","a","b","l","e"," ","f","o","r"," ","d","i","a","g","r","a","m"," ",
    "g","e","n","e","r","a","t","i","o","n",".">> ]

\* Object.values(userMessages)
UserMessageValues == {userMessages[k] : k \in DOMAIN userMessages}

(***************************************************************************)
(* Prompt templates and getPromptForAttempt (workflow.ts).                 *)
(***************************************************************************)
primaryPrefix ==
    <<"G","e","n","e","r","a","t","e"," ","a"," ","v","a","l","i","d"," ","M","e","r","m","a","i",
    "d"," ","d","i","a","g","r","a","m"," ","s","c","r","i","p","t"," ","b","a","s","e","d"," ",
    "o","n"," ","t","h","i","s"," ","c","o","n","v","e","r","s","a","t","i","o","n",".","\n",
    "\n","C","R","I","T","I","C","A","L"," ","R","E","Q","U","I","R","E","M","E","N","T","S",
    ":","\n","1","."," ","S","t","a","r","t"," ","w","i","t","h"," ","a"," ","v","a","l","i",
    "d"," ","d","i","a","g","r","a","m"," ","t","y","p","e",":"," ","f","l","o","w","c","h","a",
    "r","t"," ","T","D",","," ","g","r","a","p","h"," ","L","R",","," ","s","e","q","u","e","n",
    "c","e","D","i","a","g","r","a","m",","," ","e","t","c",".","\n","2","."," ","U","s","e",
    " ","s","q","u","a","r","e"," ","b","r","a","c","k","e","t","s"," ","f","o","r"," ","a","l",
    "l"," ","n","o","d","e"," ","l","a","b","e","l","s",":"," ","N","o","d","e","N","a","m","e",
    "[","D","e","s","c","r","i","p","t","i","o","n","]","\n","3","."," ","U","s","e"," ","p",
    "r","o","p","e","r"," ","a","r","r","o","w"," ","s","y","n","t","a","x",":"," ","A"," ","-",
    "-",">"," ","B"," ","o","r"," ","A"," ","-","-"," ","l","a","b","e","l"," ","-","-",">"," ",
    "B","\n","4","."," ","N","o"," ","s","p","a","c","e","s"," ","i","n"," ","n","o","d","e",
    " ","I","D","s"," ","(","u","s","e"," ","c","a","m","e","l","C","a","s","e"," ","o","r"," ",
    "u","n","d","e","r","s","c","o","r","e","s",")","\n","5","."," ","A","l","l"," ","b","r",
    "a","c","k","e","t","s"," ","m","u","s","t"," ","b","e"," ","b","a","l","a","n","c","e","d",
    "\n","6","."," ","U","s","e"," ","%","%"," ","f","o","r"," ","c","o","m","m","e","n","t",
    "s"," ","(","s","e","p","a","r","a","t","e"," ","l","i","n","e","s"," ","o","n","l","y",")",
    "\n","7","."," ","N","o"," ","H","T","M","L"," ","t","a","g","s"," ","o","r"," ","m","a",
    "r","k","d","o","w","n"," ","i","n"," ","l","a","b","e","l","s","\n","\n","R","E","T","U",
    "R","N"," ","O","N","L","Y"," ","t","h","e"," ","r","a","w"," ","M","e","r","m","a","i","d",
    " ","s","c","r","i","p","t",","," ","n","o","t","h","i","n","g"," ","e","l","s","e",".",
    "\n","I","f"," ","n","o"," ","m","e","a","n","i","n","g","f","u","l"," ","d","i","a","g",
    "r","a","m"," ","c","a","n"," ","b","e"," ","c","r","e","a","t","e","d",","," ","r","e","t",
    "u","r","n",":"," ","N","O","_","D","I","A","G","R","A","M","\n","\n","C","o","n","v","e",
    "r","s","a","t","i","o","n",":","\n">>

secondaryPrefix ==
    <<"C","r","e","a","t","e"," ","a"," ","s","i","m","p","l","e"," ","M","e","r","m","a","i","d",
    " ","f","l","o","w","c","h","a","r","t"," ","f","o","r"," ","t","h","i","s"," ","c","o","n",
    "v","e","r","s","a","t","i","o","n",":","\n","\n">>

secondarySuffix ==
    <<"\n","\n","R","e","q","u","i","r","e","m","e","n","t","s",":","\n","-"," ","S","t","a","r",
    "t"," ","w","i","t","h",":"," ","f","l","o","w","c","h","a","r","t"," ","T","D","\n","-",
    " ","U","s","e"," ","f","o","r","m","a","t",":"," ","N","o","d","e","N","a","m","e","[","D",
    "e","s","c","r","i","p","t","i","o","n","]"," ","-","-",">"," ","O","t","h","e","r","N","o",
    "d","e","[","D","e","s","c","r","i","p","t","i","o","n","]","\n","-"," ","K","e","e","p",
    " ","i","t"," ","s","i","m","p","l","e"," ","a","n","d"," ","f","o","c","u","s","e","d",
    "\n","-"," ","R","e","t","u","r","n"," ","o","n","l","y"," ","t","h","e"," ","M","e","r",
    "m","a","i","d"," ","s","c","r","i","p","t"," ","o","r"," ","N","O","_","D","I","A","G","R",
    "A","M">>

fallbackPrefix ==
    <<"G","e","n","e","r","a","t","e"," ","a"," ","b","a","s","i","c"," ","f","l","o","w","c","h",
    "a","r","t"," ","s","h","o","w","i","n","g"," ","t","h","e"," ","m","a","i","n"," ","s","t",
    "e","p","s"," ","d","i","s","c","u","s","s","e","d",":","\n","\n">>

fallbackSuffix ==
    <<"\n","\n","F","o","r","m","a","t",":","\n","f","l","o","w","c","h","a","r","t"," ","T","D",
    "\n"," "," ","A","[","S","t","e","p"," ","1","]"," ","-","-",">"," ","B","[","S","t","e",
    "p"," ","2","]","\n"," "," ","\n","R","e","t","u","r","n"," ","o","n","l","y"," ","v","a",
    "l","i","d"," ","M","e","r","m","a","i","d"," ","s","y","n","t","a","x"," ","o","r"," ","N",
    "O","_","D","I","A","G","R","A","M">>

promptTemplates(name, conversation) ==
    CASE name = "primary"   -> primaryPrefix \o conversation
      [] name = "secondary" -> secondaryPrefix \o conversation \o secondarySuffix
      [] OTHER              -> fallbackPrefix \o conversation \o fallbackSuffix

\* mutant: the case of attempt 2 is missing from the switch
getPromptForAttemptNoSecondary(attemptNumber, conversation) ==
    CASE attemptNumber = 1 -> promptTemplates("primary", conversation)
      [] OTHER             -> promptTemplates("fallback", conversation)

getPromptForAttempt(attemptNumber, conversation) ==
    CASE attemptNumber = 1 -> promptTemplates("primary", conversation)
      [] attemptNumber = 2 -> promptTemplates("secondary", conversation)
      [] OTHER             -> promptTemplates("fallback", conversation)

(***************************************************************************)
(* validateMermaidScript (workflow.ts).                                    *)
(***************************************************************************)
\* /\[.*?\]/ : an opening bracket and a later closing bracket on one line
hasBrackets(t) ==
    \E i \in 1..Len(t) :
        /\ t[i] = "["
        /\ \E j \in (i + 1)..Len(t) :
            /\ t[j] = "]"
            /\ \A k \in (i + 1)..(j - 1) : ~IsLineTerminator(t[k])

\* /-->|->|<--|<-/
hasArrows(t) ==
    \/ Includes(t, <<"-","-",">">>)
    \/ Includes(t, <<"-",">">>)
    \/ Includes(t, <<"<","-","-">>)
    \/ Includes(t, <<"<","-">>)

\* /\.\.\.[^[\]]*?\]/ : "..." then characters other than brackets, then "]"
IncompleteNodeReference(t) ==
    \E i \in 1..Len(t) :
        /\ MatchAt(t, i, <<".",".",".">>)
        /\ \E j \in (i + 3)..Len(t) :
            /\ t[j] = "]"
            /\ \A k \in (i + 3)..(j - 1) : t[k] \notin {"[", "]"}

\* /\[.*?; %%/ : "[" then, on the same line, the text "; %%"
InlineCommentAfterBracket(t) ==
    \E i \in 1..Len(t) :
        /\ t[i] = "["
        /\ \E j \in (i + 1)..Len(t) :
            /\ MatchAt(t, j, <<";"," ","%","%">>)
            /\ \A k \in (i + 1)..(j - 1) : ~IsLineTerminator(t[k])

\* mutant: /^\s*(-->|<--)\s*$/m, a line that holds nothing but an arrow
ArrowWithoutNodeAnchored(t) ==
    \E j \in 1..Len(t) :
        /\ MatchAt(t, j, <<"-","-",">">>) \/ MatchAt(t, j, <<"<","-","-">>)
        /\ \E i \in 1..j :
            /\ i = 1 \/ IsLineTerminator(t[i - 1])
            /\ \A k \in i..(j - 1) : IsWhitespace(t[k])
        /\ \E e \in (j + 3)..(Len(t) + 1) :
            /\ \A k \in (j + 3)..(e - 1) : IsWhitespace(t[k])
            /\ e = Len(t) + 1 \/ IsLineTerminator(t[e])

\* /^\s*-->|<--\s*$/m : the alternation binds loosest, so the pattern is
\* (^\s*-->) or (<--\s*$), with ^ and $ matching at line boundaries
ArrowWithoutNode(t) ==
    \/ \E j \in 1..Len(t) :
        /\ MatchAt(t, j, <<"-","-",">">>)
        /\ \E i \in 1..j :
            /\ i = 1 \/ IsLineTerminator(t[i - 1])
            /\ \A k \in i..(j - 1) : IsWhitespace(t[k])
    \/ \E i \in 1..Len(t) :
        /\ MatchAt(t, i, <<"<","-","-">>)
        /\ \E j \in (i + 3)..(Len(t) + 1) :
            /\ \A k \in (i + 3)..(j - 1) : IsWhitespace(t[k])
            /\ j = Len(t) + 1 \/ IsLineTerminator(t[j])

hasInvalidPatterns(t) ==
    \/ IncompleteNodeReference(t)
    \/ InlineCommentAfterBracket(t)
    \/ ArrowWithoutNode(t)

hasValidDiagramType(t) ==
    LET lower == ToLowerCase(t)
    IN  \E type \in validDiagramTypes : StartsWith(lower, ToLowerCase(type))

\* mutant: the upper bound of the length is not tested
validateMermaidScriptNoMaximum(script) ==
    IF script = << >> THEN FALSE
    ELSE LET trimmed == Trim(script)
         IN  IF Len(trimmed) < minScriptLength
             THEN FALSE
             ELSE IF ~hasValidDiagramType(trimmed)
             THEN FALSE
             ELSE IF /\ ~hasBrackets(trimmed)
                     /\ ~hasArrows(trimmed)
                     /\ ~Includes(trimmed, <<"p","a","r","t","i","c","i","p","a","n","t">>)
                     /\ ~Includes(trimmed, <<"c","l","a","s","s">>)
             THEN FALSE
             ELSE IF CountChar(trimmed, "[") # CountChar(trimmed, "]")
             THEN FALSE
             ELSE ~hasInvalidPatterns(trimmed)

validateMermaidScript(script) ==
    IF script = << >> THEN FALSE
    ELSE LET trimmed == Trim(script)
         IN  IF Len(trimmed) < minScriptLength \/ Len(trimmed) > maxScriptLength
             THEN FALSE
             ELSE IF ~hasValidDiagramType(trimmed)
             THEN FALSE
             ELSE IF /\ ~hasBrackets(trimmed)
                     /\ ~hasArrows(trimmed)
                     /\ ~Includes(trimmed, <<"p","a","r","t","i","c","i","p","a","n","t">>)
                     /\ ~Includes(trimmed, <<"c","l","a","s","s">>)
             THEN FALSE
             ELSE IF CountChar(trimmed, "[") # CountChar(trimmed, "]")
             THEN FALSE
             ELSE ~hasInvalidPatterns(trimmed)

(***************************************************************************)
(* cleanMermaidScript (workflow.ts).  Positions are 1-based indices of the *)
(* next character to match; 0 stands for "the pattern does not match".     *)
(***************************************************************************)
\* the /i flag: characters are compared without regard to case
MatchAtIgnoreCase(s, pos, p) ==
    /\ pos >= 1
    /\ pos + Len(p) - 1 <= Len(s)
    /\ \A k \in 1..Len(p) : LowerChar(s[pos + k - 1]) = LowerChar(p[k])

\* a literal of a /.../i pattern
Lit(s, pos, p) ==
    IF pos # 0 /\ MatchAtIgnoreCase(s, pos, p) THEN pos + Len(p) ELSE 0

\* an optional group ( a| b)? of a /.../i pattern: the first alternative
\* that matches is taken, none otherwise
Opt(s, pos, alts) ==
    IF pos = 0 THEN 0
    ELSE LET hits == {k \in 1..Len(alts) : MatchAtIgnoreCase(s, pos, alts[k])}
         IN  IF hits = {} THEN pos ELSE pos + Len(alts[MinOf(hits)])

\* \s*
SkipWhitespace(s, pos) ==
    IF pos = 0 THEN 0
    ELSE MinOf({q \in pos..(Len(s) + 1) :
                  /\ \A k \in pos..(q - 1) : IsWhitespace(s[k])
                  /\ q = Len(s) + 1 \/ ~IsWhitespace(s[q])})

\* s.replace(/^.../, '') where the pattern matched up to position pos
RemoveMatchedPrefix(s, pos) == IF pos = 0 THEN s ELSE SubSeq(s, pos, Len(s))

DiagramOrScript == << <<" ","d","i","a","g","r","a","m">>, <<" ","s","c","r","i","p","t">> >>

AOrThe == << <<" ","a">>, <<" ","t","h","e">> >>

\* /^here'?s?( a| the)? mermaid( diagram| script)?:?\s*/i
PrefixHeres(s) ==
    SkipWhitespace(s, Opt(s, Opt(s, Lit(s, Opt(s, Opt(s, Opt(s, Lit(s, 1,
        <<"h","e","r","e">>), << <<"'">> >>), << <<"s">> >>), AOrThe),
        <<" ","m","e","r","m","a","i","d">>), DiagramOrScript), << <<":">> >>))

\* /^this is( a| the)? mermaid( diagram| script)?:?\s*/i
PrefixThisIs(s) ==
    SkipWhitespace(s, Opt(s, Opt(s, Lit(s, Opt(s, Lit(s, 1,
        <<"t","h","i","s"," ","i","s">>), AOrThe),
        <<" ","m","e","r","m","a","i","d">>), DiagramOrScript), << <<":">> >>))

\* /^generated? mermaid( diagram| script)?:?\s*/i
PrefixGenerated(s) ==
    SkipWhitespace(s, Opt(s, Opt(s, Lit(s, Opt(s, Lit(s, 1,
        <<"g","e","n","e","r","a","t","e">>), << <<"d">> >>),
        <<" ","m","e","r","m","a","i","d">>), DiagramOrScript), << <<":">> >>))

\* /^workflow( diagram)?:?\s*/i
PrefixWorkflow(s) ==
    SkipWhitespace(s, Opt(s, Opt(s, Lit(s, 1,
        <<"w","o","r","k","f","l","o","w">>), << <<" ","d","i","a","g","r","a","m">> >>), << <<":">> >>))

\* /^diagram:?\s*/i
PrefixDiagram(s) ==
    SkipWhitespace(s, Opt(s, Lit(s, 1, <<"d","i","a","g","r","a","m">>), << <<":">> >>))

\* the loop over prefixesToRemove, in the order of the array
RemovePrefixes(s) ==
    LET s1 == RemoveMatchedPrefix(s, PrefixHeres(s))
        s2 == RemoveMatchedPrefix(s1, PrefixThisIs(s1))
        s3 == RemoveMatchedPrefix(s2, PrefixGenerated(s2))
        s4 == RemoveMatchedPrefix(s3, PrefixWorkflow(s3))
    IN  RemoveMatchedPrefix(s4, PrefixDiagram(s4))

Fence == <<Backtick,Backtick,Backtick>>

\* mutant: /^\s*```\s*([\s\S]*?)\s*```\s*$/, without the language tag
wrapperRegexNoTag(cleaned) ==
    LET bodyStart == SkipWhitespace(cleaned,
                        IF StartsWith(cleaned, Fence) THEN 4 ELSE 0)
        closeAt   == Len(cleaned) - 2
    IN  IF bodyStart # 0 /\ bodyStart <= closeAt /\ MatchAt(cleaned, closeAt, Fence)
        THEN [matched |-> TRUE,
              group   |-> TrimEnd(SubSeq(cleaned, bodyStart, closeAt - 1))]
        ELSE [matched |-> FALSE, group |-> << >>]

\* match[1] of /^\s*```(?:mermaid)?\s*([\s\S]*?)\s*```\s*$/ on a trimmed
\* string, or "no match".  The lazy group ends where the run of whitespace
\* before the closing fence begins.
wrapperRegex(cleaned) ==
    LET bodyStart == SkipWhitespace(cleaned,
                        Opt(cleaned, IF StartsWith(cleaned, Fence) THEN 4 ELSE 0,
                            << <<"m","e","r","m","a","i","d">> >>))
        closeAt   == Len(cleaned) - 2
    IN  IF bodyStart # 0 /\ bodyStart <= closeAt /\ MatchAt(cleaned, closeAt, Fence)
        THEN [matched |-> TRUE,
              group   |-> TrimEnd(SubSeq(cleaned, bodyStart, closeAt - 1))]
        ELSE [matched |-> FALSE, group |-> << >>]

cleanMermaidScript(rawScript) ==
    IF rawScript = << >> THEN << >>
    ELSE LET trimmed   == Trim(rawScript)
             match     == wrapperRegex(trimmed)
             unwrapped == IF match.matched /\ match.group # << >>
                          THEN Trim(match.group) ELSE trimmed
         IN  Trim(RemovePrefixes(unwrapped))

(***************************************************************************)
(* Errors.  A thrown value is an Error object with a message, or some      *)
(* other value (error instanceof Error is false).                          *)
(***************************************************************************)
Error(message) == [isError |-> TRUE, message |-> message]

NonErrorValue == [isError |-> FALSE, message |-> << >>]

EmptyResponseMessage == <<"E","m","p","t","y"," ","r","e","s","p","o","n","s","e"," ","r","e","c","e","i","v","e","d",
    " ","f","r","o","m"," ","G","e","m","i","n","i"," ","A","P","I">>

UnexpectedErrorMessage ==
    <<"A","n"," ","u","n","e","x","p","e","c","t","e","d"," ","e","r","r","o","r"," ","o","c","c",
    "u","r","r","e","d"," ","w","h","i","l","e"," ","c","o","m","m","u","n","i","c","a","t","i",
    "n","g"," ","w","i","t","h"," ","t","h","e"," ","A","I"," ","s","e","r","v","i","c","e",".">>

(***************************************************************************)
(* handleGeminiApiError and handleMermaidGenerationError (gemini.ts).      *)
(***************************************************************************)
\* mutant: the rate-limit keywords are looked for before the authentication
\* keywords
handleGeminiApiErrorRateFirst(error) ==
    IF error.isError
    THEN LET message == ToLowerCase(error.message)
         IN  IF \/ Includes(message, <<"r","a","t","e"," ","l","i","m","i","t">>)
                \/ Includes(message, <<"q","u","o","t","a">>)
                \/ Includes(message, <<"t","o","o"," ","m","a","n","y"," ","r","e","q","u","e","s","t","s">>)
             THEN Error(userMessages.rateLimitError)
             ELSE IF \/ Includes(message, <<"a","p","i"," ","k","e","y">>)
                     \/ Includes(message, <<"a","u","t","h","e","n","t","i","c","a","t","i","o","n">>)
                     \/ Includes(message, <<"u","n","a","u","t","h","o","r","i","z","e","d">>)
             THEN Error(userMessages.authenticationError)
             ELSE IF \/ Includes(message, <<"n","e","t","w","o","r","k">>)
                     \/ Includes(message, <<"c","o","n","n","e","c","t","i","o","n">>)
                     \/ Includes(message, <<"t","i","m","e","o","u","t">>)
             THEN Error(userMessages.networkError)
             ELSE error
    ELSE Error(UnexpectedErrorMessage)

handleGeminiApiError(error) ==
    IF error.isError
    THEN LET message == ToLowerCase(error.message)
         IN  IF \/ Includes(message, <<"a","p","i"," ","k","e","y">>)
                \/ Includes(message, <<"a","u","t","h","e","n","t","i","c","a","t","i","o","n">>)
                \/ Includes(message, <<"u","n","a","u","t","h","o","r","i","z","e","d">>)
             THEN Error(userMessages.authenticationError)
             ELSE IF \/ Includes(message, <<"r","a","t","e"," ","l","i","m","i","t">>)
                     \/ Includes(message, <<"q","u","o","t","a">>)
                     \/ Includes(message, <<"t","o","o"," ","m","a","n","y"," ","r","e","q","u","e","s","t","s">>)
             THEN Error(userMessages.rateLimitError)
             ELSE IF \/ Includes(message, <<"n","e","t","w","o","r","k">>)
                     \/ Includes(message, <<"c","o","n","n","e","c","t","i","o","n">>)
                     \/ Includes(message, <<"t","i","m","e","o","u","t">>)
             THEN Error(userMessages.networkError)
             ELSE error
    ELSE Error(UnexpectedErrorMessage)

\* mutant: every failure is reported with the generic message
handleMermaidGenerationErrorGeneric(error) ==
    Error(userMessages.generationFailed)

handleMermaidGenerationError(error) ==
    IF error.isError
    THEN IF error.message \in UserMessageValues
         THEN error
         ELSE handleGeminiApiError(error)
    ELSE Error(userMessages.generationFailed)

(***************************************************************************)
(* Inputs of the model: the environment's API key, the conversations       *)
(* handed to the orchestrator and what the backend may answer to one       *)
(* request (a stream of text chunks, or an error).                         *)
(***************************************************************************)
ApiKeys ==
    { << >>,                       \* VITE_GEMINI_API_KEY not set
      <<" "," "," "," "," "," "," "," "," "," "," ">>,             \* blank
      <<"A","I","z","a","-","s","h","o","r","t">>,              \* too short
      <<"A","I","z","a","S","y","D","-","0","1","2","3","4","5","6","7","8","9">> }

validateApiKey(key) == key # << >> /\ Trim(key) # << >> /\ Len(key) > 10

Message(role, content) == [role |-> role, content |-> content]

Conversations ==
    { << >>,
      << Message("mermaid", <<"G","e","n","e","r","a","t","i","n","g"," ","w","o","r","k","f","l","o","w"," ","d","i","a",
    "g","r","a","m",".",".",".">>) >>,
      << Message("system", <<"b","e"," ","b","r","i","e","f">>) >>,
      << Message("user", <<"I"," ","w","a","n","t"," ","a"," ","l","o","g","i","n"," ","f","l","o","w">>) >>,
      << Message("user", <<"h","i">>), Message("assistant", <<"h","e","l","l","o">>),
         Message("mermaid", <<"G","e","n","e","r","a","t","i","n","g"," ","w","o","r","k","f","l","o","w"," ","d","i","a",
    "g","r","a","m",".",".",".">>) >> }

\* each response is the sequence of the texts of its chunks
BackendResponses ==
    << << <<"N","O","_","D","I","A","G","R","A","M","\n">> >>,
       << <<"f","l","o","w","c","h","a","r","t"," ","T","D","\n">>, <<"A","[","S","t","a","r","t","]"," ","-","-",">"," ","B","[","E","n","d","]">> >>,
       << <<Backtick,Backtick,Backtick,"m","e","r","m","a","i","d","\n","f","l","o","w","c","h","a","r",
    "t"," ","T","D","\n","A","[","L","o","g","i","n","]"," ","-","-",">"," ","B","[","H","o",
    "m","e","]","\n",Backtick,Backtick,Backtick>> >>,
       << <<"I"," ","c","a","n","n","o","t"," ","d","r","a","w"," ","t","h","i","s"," ","c","o","n","v",
    "e","r","s","a","t","i","o","n",".">> >>,
       << <<"f","l","o","w","c","h","a","r","t"," ","T","D","\n","A","[","S","t","a","r","t"," ","-",
    "-",">"," ","B","[","E","n","d","]">> >>,
       << <<" ","\n">> >> >>

\* what the backend may fail with; two of the messages hold the keywords of
\* more than one class of handleGeminiApiError
BackendErrors ==
    { Error(<<"[","4","2","9"," ","T","o","o"," ","M","a","n","y"," ","R","e","q","u","e","s","t","s","]",
    " ","Q","u","o","t","a"," ","e","x","c","e","e","d","e","d"," ","f","o","r"," ","t","h","i",
    "s"," ","A","P","I"," ","k","e","y",".">>),
      Error(<<"T","o","o"," ","m","a","n","y"," ","r","e","q","u","e","s","t","s",";"," ","c","o","n","n",
    "e","c","t","i","o","n"," ","r","e","s","e","t",".">>),
      Error(<<"N","e","t","w","o","r","k","E","r","r","o","r"," ","w","h","e","n"," ","a","t","t","e","m",
    "p","t","i","n","g"," ","t","o"," ","f","e","t","c","h"," ","r","e","s","o","u","r","c","e",
    ".">>),
      Error(<<"I","n","t","e","r","n","a","l"," ","S","e","r","v","e","r"," ","E","r","r","o","r">>),
      NonErrorValue }

(***************************************************************************)
(* State.                                                                  *)
(***************************************************************************)
VARIABLES
    apiKey,               \* import.meta.env.VITE_GEMINI_API_KEY
    conversationHistory,  \* the argument of the invocation
    pc,                   \* "idle", "awaiting" (the await of line 181), "done"
    attempt,              \* the loop variable; 0 before the loop
    execCalls,            \* calls of attemptMermaidGeneration
    request,              \* per attempt: the backend request and its stream
    timer,                \* per attempt: the setTimeout of the timeout promise
    race,                 \* per attempt: the Promise.race of line 276
    returned,             \* values the invocation resolved with
    thrown,               \* errors the invocation rejected with
    consoleErrors,        \* console.error of line 204: <<attempt, error>>
    cleanCalls,           \* arguments cleanMermaidScript was called with
    validateCalls,        \* arguments validateMermaidScript was called with
    afterLoop,            \* the statement after the loop (line 217) was run
    candidate,            \* a script, before it is wrapped in a code fence
    fence,                \* the code fence the script is wrapped in
    cleanedOut,           \* what cleanMermaidScript returned for the wrapped script
    verdict,              \* what validateMermaidScript returned for the wrapped script
    cleanedVerdict,       \* what validateMermaidScript returned for cleanedOut
    conversation,         \* HomePage: the messages shown (useState, line 61)
    conversationId,       \* HomePage: the id of the conversation; 0 is null
    isSearching,          \* HomePage: a chat exchange is under way
    isGeneratingWorkflow, \* HomePage: a workflow generation is under way
    pageError,            \* HomePage: the error shown (useState, line 65)
    searches,             \* the calls of handleSearch and what they captured
    generations,          \* the calls of handleGenerateWorkflow, likewise
    uuids,                \* the number of ids uuidv4 has produced
    renderCalls,          \* ChatMessage: the arguments mermaid.render got
    store,                \* historyStorage: the items kept in localStorage
    lastCall              \* historyStorage: the last call made directly

backendVars == <<request, timer, race>>

orchVars == <<pc, attempt, execCalls, returned, thrown, consoleErrors,
              cleanCalls, validateCalls, afterLoop>>

\* the state of the direct calls of cleanMermaidScript and
\* validateMermaidScript
scriptVars == <<candidate, fence, cleanedOut, verdict, cleanedVerdict>>

\* the state of the HomePage component and of the messages it renders
pageVars == <<conversation, conversationId, isSearching, isGeneratingWorkflow,
              pageError, searches, generations, uuids, renderCalls>>

\* the state of the history store
historyVars == <<store, lastCall>>

vars == <<apiKey, conversationHistory, pc, attempt, execCalls, request, timer,
          race, returned, thrown, consoleErrors, cleanCalls, validateCalls,
          afterLoop, scriptVars, pageVars, historyVars>>

Attempts == 1..maxRetryAttempts

NoRequest ==
    [state |-> "none", contents |-> << >>, resp |-> 0, got |-> 0,
     aiResponse |-> << >>]

\* no invocation has started
NotInvoked ==
    /\ pc = "idle"
    /\ attempt = 0
    /\ execCalls = 0
    /\ request = [i \in Attempts |-> NoRequest]
    /\ timer = [i \in Attempts |-> "none"]
    /\ race = [i \in Attempts |-> "none"]
    /\ returned = << >>
    /\ thrown = << >>
    /\ consoleErrors = << >>
    /\ cleanCalls = {}
    /\ validateCalls = {}
    /\ afterLoop = FALSE

\* no script has been handed to the cleaner or the validator directly
NoScript ==
    /\ candidate = << >>
    /\ fence = "none"
    /\ cleanedOut = << >>
    /\ verdict = << >>
    /\ cleanedVerdict = << >>

\* bounds: the calls of handleSearch and of handleGenerateWorkflow that are
\* followed, and the ids that uuidv4 hands out
MaxSearches == 2

MaxGenerations == 2

MaxChats == 2

NoCall ==
    [stage |-> "none", conversation |-> << >>, conversationId |-> 0,
     mermaidScript |-> << >>]

\* the HomePage component as it is mounted (lines 61-66), nothing rendered
NoPage ==
    /\ conversation = << >>
    /\ conversationId = 0
    /\ isSearching = FALSE
    /\ isGeneratingWorkflow = FALSE
    /\ pageError = "null"
    /\ searches = [k \in 1..MaxSearches |-> NoCall]
    /\ generations = [g \in 1..MaxGenerations |-> NoCall]
    /\ uuids = 0
    /\ renderCalls = {}

\* nothing is stored under HISTORY_STORAGE_KEY
NoHistory ==
    /\ store = << >>
    /\ lastCall = << >>

Init ==
    /\ apiKey \in ApiKeys
    /\ conversationHistory \in Conversations
    /\ NotInvoked
    /\ NoScript
    /\ NoPage
    /\ NoHistory

(***************************************************************************)
(* generateMermaidScriptFromConversation: preparation of the conversation  *)
(* (lines 163-174).                                                        *)
(***************************************************************************)
\* mutant: the roles are not filtered
allMessages(history) == history

userAndAssistantMessages(history) ==
    SelectSeq(history, LAMBDA m : m.role \in {"user", "assistant"})

RoleText(role) ==
    CASE role = "user"      -> <<"u","s","e","r">>
      [] role = "assistant" -> <<"a","s","s","i","s","t","a","n","t">>
      [] role = "system"    -> <<"s","y","s","t","e","m">>
      [] OTHER              -> <<"m","e","r","m","a","i","d">>

RECURSIVE JoinMessages(_)
JoinMessages(msgs) ==
    IF msgs = << >> THEN << >>
    ELSE LET line == RoleText(Head(msgs).role) \o <<":"," ">> \o Head(msgs).content
         IN  IF Len(msgs) = 1 THEN line
             ELSE line \o <<"\n","\n">> \o JoinMessages(Tail(msgs))

conversationContent(history) == JoinMessages(userAndAssistantMessages(history))

(***************************************************************************)
(* The retry loop (lines 177-214) between two awaits.  The race of the     *)
(* awaited attempt has settled with a text or with an error; the code runs *)
(* without interruption to a return, a throw or the next await.            *)
(***************************************************************************)
Text(text) == [kind |-> "text", text |-> text, error |-> NonErrorValue]

Failure(error) == [kind |-> "error", text |-> << >>, error |-> error]

\* mutant: the last attempt is taken to be one later than the budget
IsLastAttemptLate(att) == att = maxRetryAttempts + 1

\* for (...; attempt <= maxRetryAttempts; ...)
LoopCondition(att) == att <= maxRetryAttempts

\* mutant: the loop gives up one attempt early
IsLastAttemptEarly(att) == att >= maxRetryAttempts - 1

\* attempt === mermaidGenerationConfig.maxRetryAttempts
IsLastAttempt(att) == att = maxRetryAttempts

\* attemptMermaidGeneration after the race: if (!result) throw ...
\* mutant: the test of the empty result is inverted
executorResultInverted(settled) ==
    IF settled.kind = "text" /\ settled.text # << >>
    THEN Failure(Error(EmptyResponseMessage))
    ELSE settled

\* mutant: the empty result is handed to the loop like any other text
executorResultNoEmptyCheck(settled) == settled

executorResult(settled) ==
    IF settled.kind = "text" /\ settled.text = << >>
    THEN Failure(Error(EmptyResponseMessage))
    ELSE settled

\* the backend rejected the credentials, as handleGeminiApiError classifies it
IsAuthenticationFailure(error) ==
    /\ error.isError
    /\ handleGeminiApiError(error) = Error(userMessages.authenticationError)

\* mutant: an authentication failure ends the loop at once
catchBlockAuthShortCircuit(att, error, cleaned, validated) ==
    [kind      |-> IF IsLastAttempt(att) \/ IsAuthenticationFailure(error)
                   THEN "throw" ELSE "next",
     value     |-> << >>,
     error     |-> error,
     logged    |-> << <<att, error>> >>,
     cleaned   |-> cleaned,
     validated |-> validated]

\* mutant: the last attempt rethrows the first error of the invocation
catchBlockFirstError(att, error, cleaned, validated) ==
    [kind      |-> IF IsLastAttempt(att) THEN "throw" ELSE "next",
     value     |-> << >>,
     error     |-> IF consoleErrors # << >> THEN consoleErrors[1][2] ELSE error,
     logged    |-> << <<att, error>> >>,
     cleaned   |-> cleaned,
     validated |-> validated]

\* mutant: the catch block never rethrows
catchBlockNeverThrows(att, error, cleaned, validated) ==
    [kind      |-> "next",
     value     |-> << >>,
     error     |-> error,
     logged    |-> << <<att, error>> >>,
     cleaned   |-> cleaned,
     validated |-> validated]

\* catch (error) { console.error; if last attempt, throw error }
catchBlock(att, error, cleaned, validated) ==
    [kind      |-> IF IsLastAttempt(att) THEN "throw" ELSE "next",
     value     |-> << >>,
     error     |-> error,
     logged    |-> << <<att, error>> >>,
     cleaned   |-> cleaned,
     validated |-> validated]

\* mutant: the sentinel is compared with the untrimmed response
IsSentinelUntrimmed(script) == script = NO_DIAGRAM \o <<"\n">>

\* script === 'NO_DIAGRAM'
IsSentinel(script) == script = NO_DIAGRAM

\* mutant: the cleaned script is returned without being validated
loopBodyUnvalidated(att, result) ==
    IF result.kind = "error"
    THEN catchBlock(att, result.error, {}, {})
    ELSE IF IsSentinel(result.text)
    THEN [kind |-> "return", value |-> NO_DIAGRAM, error |-> NonErrorValue,
          logged |-> << >>, cleaned |-> {}, validated |-> {}]
    ELSE [kind |-> "return", value |-> cleanMermaidScript(result.text),
          error |-> NonErrorValue, logged |-> << >>,
          cleaned |-> {result.text}, validated |-> {}]

\* mutant: the last attempt does not throw when the script is invalid
validateCleanedSilent(att, text, cleanedScript) ==
    IF validateMermaidScript(cleanedScript)
    THEN [kind |-> "return", value |-> cleanedScript,
          error |-> NonErrorValue, logged |-> << >>,
          cleaned |-> {text}, validated |-> {cleanedScript}]
    ELSE [kind |-> "next", value |-> << >>, error |-> NonErrorValue,
          logged |-> << >>,
          cleaned |-> {text}, validated |-> {cleanedScript}]

\* lines 192-201 of the loop body: the cleaned script is validated and either
\* returned, or rejected (thrown into the catch block on the last attempt)
validateCleaned(att, text, cleanedScript) ==
    IF validateMermaidScript(cleanedScript)
    THEN [kind |-> "return", value |-> cleanedScript,
          error |-> NonErrorValue, logged |-> << >>,
          cleaned |-> {text}, validated |-> {cleanedScript}]
    ELSE IF IsLastAttempt(att)
    THEN catchBlock(att, Error(userMessages.validationFailed),
                    {text}, {cleanedScript})
    ELSE [kind |-> "next", value |-> << >>, error |-> NonErrorValue,
          logged |-> << >>,
          cleaned |-> {text}, validated |-> {cleanedScript}]

\* one iteration of the loop body, given what the executor produced
loopBody(att, result) ==
    IF result.kind = "error"
    THEN catchBlock(att, result.error, {}, {})
    ELSE IF IsSentinel(result.text)
    THEN [kind |-> "return", value |-> NO_DIAGRAM, error |-> NonErrorValue,
          logged |-> << >>, cleaned |-> {}, validated |-> {}]
    ELSE validateCleaned(att, result.text, cleanMermaidScript(result.text))

\* the invocation settles: return ..., or the outer catch of lines 219-222
Finish(att, values, errors, after, request1, timer1, race1) ==
    /\ pc' = "done"
    /\ attempt' = att
    /\ returned' = returned \o values
    /\ thrown' = thrown \o [k \in 1..Len(errors) |->
                               handleMermaidGenerationError(errors[k])]
    /\ afterLoop' = after
    /\ request' = request1
    /\ timer' = timer1
    /\ race' = race1
    /\ UNCHANGED execCalls

\* mutant: no timeout promise takes part in the race
attemptMermaidGenerationNoTimer(att, request1, timer1, race1) ==
    /\ pc' = "awaiting"
    /\ attempt' = att
    /\ execCalls' = execCalls + 1
    /\ request' = (att :> [state      |-> "inflight",
                           contents   |-> getPromptForAttempt(att,
                                            conversationContent(conversationHistory)),
                           resp       |-> 0,
                           got        |-> 0,
                           aiResponse |-> << >>]) @@ request1
    /\ timer' = timer1
    /\ race' = (att :> "pending") @@ race1
    /\ UNCHANGED <<returned, thrown, afterLoop>>

\* attemptMermaidGeneration up to its await: the prompt is built, the timer
\* is armed, the request is issued and the race is awaited (lines 238-276)
attemptMermaidGeneration(att, request1, timer1, race1) ==
    /\ pc' = "awaiting"
    /\ attempt' = att
    /\ execCalls' = execCalls + 1
    /\ request' = (att :> [state      |-> "inflight",
                           contents   |-> getPromptForAttempt(att,
                                            conversationContent(conversationHistory)),
                           resp       |-> 0,
                           got        |-> 0,
                           aiResponse |-> << >>]) @@ request1
    /\ timer' = (att :> "armed") @@ timer1
    /\ race' = (att :> "pending") @@ race1
    /\ UNCHANGED <<returned, thrown, afterLoop>>

\* the loop header for index att: another attempt, or the statement after
\* the loop (line 217)
EnterLoop(att, request1, timer1, race1) ==
    IF LoopCondition(att)
    THEN attemptMermaidGeneration(att, request1, timer1, race1)
    ELSE Finish(att, << >>, << Error(userMessages.generationFailed) >>, TRUE,
                request1, timer1, race1)

\* the continuation of the invocation once the awaited race has settled
Resume(settled, request1, timer1, race1) ==
    \E body \in {loopBody(attempt, executorResult(settled))} :
        /\ consoleErrors' = consoleErrors \o body.logged
        /\ cleanCalls' = cleanCalls \cup body.cleaned
        /\ validateCalls' = validateCalls \cup body.validated
        /\ CASE body.kind = "return" ->
                  Finish(attempt, << body.value >>, << >>, afterLoop,
                         request1, timer1, race1)
             [] body.kind = "throw" ->
                  Finish(attempt, << >>, << body.error >>, afterLoop,
                         request1, timer1, race1)
             [] OTHER ->
                  EnterLoop(attempt + 1, request1, timer1, race1)

\* mutant: every settlement resumes the invocation, whatever the race
SettleRaceAlways(i, settled, request1, timer1) ==
    Resume(settled, request1, timer1, [race EXCEPT ![i] = "settled"])

\* mutant: the response of an abandoned request is still handed over
SettleRaceLateResponse(i, settled, request1, timer1) ==
    IF race[i] = "pending" \/ (settled.kind = "text" /\ pc = "awaiting")
    THEN Resume(settled, request1, timer1, [race EXCEPT ![i] = "settled"])
    ELSE /\ request' = request1
         /\ timer' = timer1
         /\ UNCHANGED <<race, orchVars>>

\* mutant: the timer of an earlier attempt rejects the race now awaited
SettleRaceSharedTimer(i, settled, request1, timer1) ==
    IF race[i] = "pending" \/ (settled.kind = "error" /\ pc = "awaiting")
    THEN Resume(settled, request1, timer1, [race EXCEPT ![i] = "settled"])
    ELSE /\ request' = request1
         /\ timer' = timer1
         /\ UNCHANGED <<race, orchVars>>

\* a promise of attempt i settles.  Promise.race takes the first of the two
\* promises to settle; the other one, when it settles, is ignored.
SettleRace(i, settled, request1, timer1) ==
    IF race[i] = "pending"
    THEN Resume(settled, request1, timer1, [race EXCEPT ![i] = "settled"])
    ELSE /\ request' = request1
         /\ timer' = timer1
         /\ UNCHANGED <<race, orchVars>>

(***************************************************************************)
(* Actions.                                                                *)
(***************************************************************************)
\* the caller invokes generateMermaidScriptFromConversation (lines 157-181)
Invoke ==
    /\ pc = "idle"
    /\ UNCHANGED <<apiKey, conversationHistory, consoleErrors, cleanCalls,
                   validateCalls, scriptVars, pageVars, historyVars>>
    /\ IF ~validateApiKey(apiKey)
       THEN Finish(attempt, << >>, << Error(userMessages.authenticationError) >>,
                   afterLoop, request, timer, race)
       ELSE IF Len(userAndAssistantMessages(conversationHistory)) = 0
       THEN Finish(attempt, << >>, << Error(userMessages.noContentError) >>,
                   afterLoop, request, timer, race)
       ELSE EnterLoop(1, request, timer, race)

\* the backend delivers the next chunk of the stream of request i; the
\* for-await loop appends its text to aiResponse (lines 263-271)
StreamChunk(i) ==
    /\ request[i].state = "inflight"
    /\ \E r \in 1..Len(BackendResponses) :
        /\ request[i].resp \in {0, r}
        /\ request[i].got < Len(BackendResponses[r])
        /\ request' = [request EXCEPT ![i] =
              [@ EXCEPT !.resp = r,
                        !.got = @ + 1,
                        !.aiResponse = @ \o BackendResponses[r][request[i].got + 1]]]
    /\ UNCHANGED <<apiKey, conversationHistory, timer, race, orchVars,
                   scriptVars, pageVars, historyVars>>

\* the stream of request i ends: generationPromise resolves with
\* aiResponse.trim() (line 273) and the locals of the request are gone
StreamEnd(i) ==
    /\ request[i].state = "inflight"
    /\ request[i].resp # 0
    /\ request[i].got = Len(BackendResponses[request[i].resp])
    /\ UNCHANGED <<apiKey, conversationHistory, scriptVars, pageVars, historyVars>>
    /\ SettleRace(i, Text(Trim(request[i].aiResponse)),
                  [request EXCEPT ![i] = [NoRequest EXCEPT !.state = "returned"]], timer)

\* the backend call or the stream of request i fails: generationPromise
\* rejects with the backend's error
StreamError(i) ==
    /\ request[i].state = "inflight"
    /\ UNCHANGED <<apiKey, conversationHistory, scriptVars, pageVars, historyVars>>
    /\ \E e \in BackendErrors :
        SettleRace(i, Failure(e), [request EXCEPT ![i] = [NoRequest EXCEPT !.state = "threw"]], timer)

\* the timer of attempt i fires: timeoutPromise rejects (lines 247-251)
TimerFire(i) ==
    /\ timer[i] = "armed"
    /\ UNCHANGED <<apiKey, conversationHistory, scriptVars, pageVars, historyVars>>
    /\ SettleRace(i, Failure(Error(userMessages.timeoutError)),
                  request, [timer EXCEPT ![i] = "fired"])

Next ==
    \/ Invoke
    \/ \E i \in Attempts : StreamChunk(i)
    \/ \E i \in Attempts : StreamEnd(i)
    \/ \E i \in Attempts : StreamError(i)
    \/ \E i \in Attempts : TimerFire(i)

Spec == Init /\ [][Next]_vars

\* the environment runs the timers: an armed setTimeout callback is
\* eventually called (nothing is asked of the backend)
FairSpec == Spec /\ \A i \in Attempts : WF_vars(TimerFire(i))

(***************************************************************************)
(* validateMermaidScript and cleanMermaidScript called directly (they are  *)
(* exported by workflow.ts): a script, as it is or wrapped in a Markdown    *)
(* code fence, is cleaned and validated.                                   *)
(***************************************************************************)
\* n times the character c
Pad(c, n) == [k \in 1..n |-> c]

GoodScript == <<"f","l","o","w","c","h","a","r","t"," ","T","D","\n","A","[","S","t","a","r","t","]"," ",
    "-","-",">"," ","B","[","E","n","d","]">>

Scripts ==
    { GoodScript,
      <<"g","r","a","p","h"," ","L","R","\n","A"," ","-","-",">"," ","B","\n","B"," ","-","-",">",
    " ","C">>,
      <<"s","e","q","u","e","n","c","e","D","i","a","g","r","a","m","\n","p","a","r","t","i","c",
    "i","p","a","n","t"," ","A","l","i","c","e","\n","A","l","i","c","e","-",">",">","B","o",
    "b",":"," ","H","i">>,
      <<"F","L","O","W","C","H","A","R","T"," ","T","D","\n","A","[","S","t","a","r","t","]"," ",
    "-","-",">"," ","B","[","E","n","d","]">>,
      <<" "," ","\n","f","l","o","w","c","h","a","r","t"," ","T","D","\n","A","[","S","t","a","r",
    "t","]"," ","-","-",">"," ","B","[","E","n","d","]","\n"," "," ">>,
      <<"c","l","a","s","s","D","i","a","g","r","a","m","\n","A","n","i","m","a","l"," ",":"," ",
    "+","i","n","t"," ","a","g","e">>,
      \* of the shortest accepted length, and one character shorter
      <<"g","r","a","p","h"," ","T","D","\n","A","[","x","]","-","-",">","B","[","y","]">>,
      <<"g","r","a","p","h"," ","T","D","\n","A","[","x","]","-","-",">","B","[","]">>,
      << >>,
      \* of the longest accepted length, one character longer, and longer
      \* only by the white space around it
      GoodScript \o <<"\n">> \o Pad("%", maxScriptLength - Len(GoodScript) - 1),
      GoodScript \o <<"\n">> \o Pad("%", maxScriptLength - Len(GoodScript)),
      GoodScript \o Pad(" ", maxScriptLength + 1 - Len(GoodScript)),
      \* no diagram type, no structure
      <<"I"," ","c","a","n","n","o","t"," ","d","r","a","w"," ","t","h","i","s"," ","c","o","n","v",
    "e","r","s","a","t","i","o","n",".">>,
      <<"p","i","e"," ","t","i","t","l","e"," ","P","e","t","s"," ","a","d","o","p","t","e","d"," ",
    "b","y"," ","v","o","l","u","n","t","e","e","r","s">>,
      \* brackets that do not balance
      <<"f","l","o","w","c","h","a","r","t"," ","T","D","\n","A","[","S","t","a","r","t"," ","-",
    "-",">"," ","B","[","E","n","d","]">>,
      <<"f","l","o","w","c","h","a","r","t"," ","T","D","\n","A","[","S","t","a","r","t","]","]",
    " ","-","-",">"," ","B","[","E","n","d","]">>,
      \* dots
      <<"f","l","o","w","c","h","a","r","t"," ","T","D","\n","A","[","L","o","a","d",".",".",".",
    "]"," ","-","-",">"," ","B","[","E","n","d","]">>,
      <<"f","l","o","w","c","h","a","r","t"," ","T","D","\n","A","[","W","a","i","t","]"," ","-",
    "-"," ",".",".","."," ","-","-",">"," ","B","[","E","n","d","]">>,
      \* comments
      <<"f","l","o","w","c","h","a","r","t"," ","T","D","\n","A","[","S","t","a","r","t","]",";",
    " ","%","%"," ","f","i","r","s","t","\n","A"," ","-","-",">"," ","B","[","E","n","d","]">>,
      <<"f","l","o","w","c","h","a","r","t"," ","T","D","\n","A","[","S","t","a","r","t","]"," ",
    "-","-",">"," ","B",";"," ","%","%"," ","n","o","t","e","\n","B"," ","-","-",">"," ","C",
    "[","E","n","d","]">>,
      <<"f","l","o","w","c","h","a","r","t"," ","T","D","\n","A","[","S","t","a","r","t","]","\n",
    "%","%"," ","n","o","t","e",";"," ","%","%"," ","m","o","r","e","\n","A"," ","-","-",">",
    " ","B","[","E","n","d","]">>,
      \* arrows at the start or at the end of a line
      <<"f","l","o","w","c","h","a","r","t"," ","T","D","\n","A","[","S","t","a","r","t","]","\n",
    "-","-",">"," ","B","[","E","n","d","]">>,
      <<"f","l","o","w","c","h","a","r","t"," ","T","D","\n","A","[","S","t","a","r","t","]","\n",
    " "," ","-","-",">","\n","B","[","E","n","d","]">>,
      <<"f","l","o","w","c","h","a","r","t"," ","T","D","\n","B","[","E","n","d","]"," ","<","-",
    "-","\n","A","[","S","t","a","r","t","]">>,
      <<"f","l","o","w","c","h","a","r","t"," ","T","D","\n","A","[","S","t","a","r","t","]","\n",
    "<","-","-"," ","B","[","E","n","d","]">>,
      <<"f","l","o","w","c","h","a","r","t"," ","T","D","\n","A","[","S","t","a","r","t","]"," ",
    "-","-",">","\n","B","[","E","n","d","]">>,
      \* a conversational prefix
      <<"H","e","r","e","'","s"," ","t","h","e"," ","m","e","r","m","a","i","d"," ","d","i","a","g",
    "r","a","m",":","\n","f","l","o","w","c","h","a","r","t"," ","T","D","\n","A","[","S","t",
    "a","r","t","]"," ","-","-",">"," ","B","[","E","n","d","]">> }

Fences == {"none", "plain", "tight", "mermaid", "text",
           "prefixOutside", "prefixInside", "workflowOutside",
           "workflowInside"}

\* conversational prefixes of the list prefixesToRemove (lines 267-273)
HeresPrefix == <<"H","e","r","e","'","s"," ","t","h","e"," ","m","e","r","m","a","i","d"," ","d","i","a","g",
    "r","a","m",":","\n">>

WorkflowPrefix == <<"W","o","r","k","f","l","o","w"," ","d","i","a","g","r","a","m",":"," ">>

\* the script as the model may answer it: in a Markdown code fence, and with
\* a conversational prefix in front of the fence or right inside it
Wrap(f, s) ==
    CASE f = "plain"   -> Fence \o <<"\n">> \o s \o <<"\n">> \o Fence
      [] f = "tight"   -> Fence \o s \o Fence
      [] f = "mermaid" -> Fence \o <<"m","e","r","m","a","i","d","\n">> \o s \o <<"\n">> \o Fence
      [] f = "text"    -> Fence \o <<"t","e","x","t","\n">> \o s \o <<"\n">> \o Fence
      [] f = "prefixOutside" ->
             HeresPrefix \o Fence \o <<"m","e","r","m","a","i","d","\n">> \o s \o <<"\n">> \o Fence
      [] f = "prefixInside" ->
             Fence \o <<"m","e","r","m","a","i","d","\n">> \o HeresPrefix \o s \o <<"\n">> \o Fence
      [] f = "workflowOutside" ->
             WorkflowPrefix \o Fence \o <<"\n">> \o s \o <<"\n">> \o Fence
      [] f = "workflowInside" ->
             Fence \o <<"\n">> \o WorkflowPrefix \o s \o <<"\n">> \o Fence
      [] OTHER         -> s

\* the string handed to the two functions
wrappedScript == Wrap(fence, candidate)

ScriptInit ==
    /\ apiKey = << >>
    /\ conversationHistory = << >>
    /\ NotInvoked
    /\ candidate \in Scripts
    /\ fence \in Fences
    /\ cleanedOut = << >>
    /\ verdict = << >>
    /\ cleanedVerdict = << >>
    /\ NoPage
    /\ NoHistory

\* cleanMermaidScript(wrappedScript)
CleanScript ==
    /\ cleanedOut = << >>
    /\ cleanedOut' = << cleanMermaidScript(wrappedScript) >>
    /\ UNCHANGED <<apiKey, conversationHistory, orchVars, backendVars,
                   pageVars, historyVars,
                   candidate, fence, verdict, cleanedVerdict>>

\* validateMermaidScript(wrappedScript)
ValidateScript ==
    /\ verdict = << >>
    /\ verdict' = << validateMermaidScript(wrappedScript) >>
    /\ UNCHANGED <<apiKey, conversationHistory, orchVars, backendVars,
                   pageVars, historyVars,
                   candidate, fence, cleanedOut, cleanedVerdict>>

\* validateMermaidScript(cleanMermaidScript(wrappedScript))
ValidateCleanedScript ==
    /\ cleanedOut # << >>
    /\ cleanedVerdict = << >>
    /\ cleanedVerdict' = << validateMermaidScript(cleanedOut[1]) >>
    /\ UNCHANGED <<apiKey, conversationHistory, orchVars, backendVars,
                   pageVars, historyVars,
                   candidate, fence, cleanedOut, verdict>>

ScriptNext ==
    \/ CleanScript
    \/ ValidateScript
    \/ ValidateCleanedScript

ScriptSpec == ScriptInit /\ [][ScriptNext]_vars

(***************************************************************************)
(* historyStorage.ts: the history items in localStorage.  An item is       *)
(* modelled by its id and its conversation; loadHistoryItems() is the      *)
(* value of store.                                                         *)
(***************************************************************************)
MAX_HISTORY_ITEMS == 100

HistoryItem(id, messages) == [id |-> id, conversation |-> messages]

\* saveHistoryItems: items.slice(0, MAX_HISTORY_ITEMS) is written
saveHistoryItems(items) ==
    SubSeq(items, 1, IF Len(items) < MAX_HISTORY_ITEMS
                     THEN Len(items) ELSE MAX_HISTORY_ITEMS)

\* existingItems.findIndex(existing => existing.id === id); 0 stands for -1
findIndex(items, id) ==
    IF \E k \in 1..Len(items) : items[k].id = id
    THEN MinOf({k \in 1..Len(items) : items[k].id = id})
    ELSE 0

\* mutant: the item is always added at the front
upsertHistoryItemAlwaysAdds(items, item) ==
    saveHistoryItems(<< item >> \o items)

\* upsertHistoryItem(item), with items = loadHistoryItems()
upsertHistoryItem(items, item) ==
    saveHistoryItems(
        IF findIndex(items, item.id) # 0
        THEN [items EXCEPT ![findIndex(items, item.id)] = item]
        ELSE << item >> \o items)

\* addHistoryItem(item): deprecated, warns and calls upsertHistoryItem
addHistoryItem(items, item) == upsertHistoryItem(items, item)

\* deleteHistoryItem(id)
deleteHistoryItem(items, id) ==
    saveHistoryItems(SelectSeq(items, LAMBDA existing : existing.id # id))

\* clearHistoryItems(): localStorage.removeItem
clearHistoryItems == << >>

(***************************************************************************)
(* Messages (types/chat) as HomePage builds them.                          *)
(***************************************************************************)
ChatMessage(id, role, content) ==
    [id |-> id, role |-> role, content |-> content, mermaidScript |-> << >>,
     isProcessing |-> FALSE, error |-> << >>]

\* the user message of the k-th call of handleSearch (lines 316-321)
userMessage(k) == ChatMessage(<<"user", k>>, "user", <<"q","u","e","r","y">>)

\* the assistant message of the k-th call of handleSearch (lines 354-359)
assistantMessage(k) == ChatMessage(<<"assistant", k>>, "assistant", <<"r","e","p","l","y">>)

\* the id of the mermaid message of the g-th call of handleGenerateWorkflow
mermaidMessageId(g) == <<"mermaid", g>>

\* initialMermaidMessage of the g-th call (lines 185-192)
initialMermaidMessage(g) ==
    [id |-> mermaidMessageId(g), role |-> "mermaid",
     content |-> userMessages.generationStarted, mermaidScript |-> << >>,
     isProcessing |-> TRUE, error |-> << >>]

(***************************************************************************)
(* The history store called directly (the History page and other callers   *)
(* of the functions historyStorage.ts exports).                            *)
(***************************************************************************)
HistoryIds == 1..3

StoredConversations ==
    { << userMessage(1) >>,
      << userMessage(1), assistantMessage(1) >>,
      << userMessage(1), assistantMessage(1), userMessage(2),
         assistantMessage(2) >> }

HistoryItems ==
    {HistoryItem(id, messages) : id \in HistoryIds,
                                 messages \in StoredConversations}

HistoryInit ==
    /\ apiKey = << >>
    /\ conversationHistory = << >>
    /\ NotInvoked
    /\ NoScript
    /\ NoPage
    /\ NoHistory

UpsertHistoryItem(item) ==
    /\ store' = upsertHistoryItem(store, item)
    /\ lastCall' = << "upsertHistoryItem", item >>
    /\ UNCHANGED <<apiKey, conversationHistory, orchVars, backendVars,
                   scriptVars, pageVars>>

AddHistoryItem(item) ==
    /\ store' = addHistoryItem(store, item)
    /\ lastCall' = << "addHistoryItem", item >>
    /\ UNCHANGED <<apiKey, conversationHistory, orchVars, backendVars,
                   scriptVars, pageVars>>

DeleteHistoryItem(id) ==
    /\ store' = deleteHistoryItem(store, id)
    /\ lastCall' = << "deleteHistoryItem", id >>
    /\ UNCHANGED <<apiKey, conversationHistory, orchVars, backendVars,
                   scriptVars, pageVars>>

ClearHistoryItems ==
    /\ store' = clearHistoryItems
    /\ lastCall' = << "clearHistoryItems" >>
    /\ UNCHANGED <<apiKey, conversationHistory, orchVars, backendVars,
                   scriptVars, pageVars>>

HistoryNext ==
    \/ \E item \in HistoryItems : UpsertHistoryItem(item)
    \/ \E item \in HistoryItems : AddHistoryItem(item)
    \/ \E id \in HistoryIds : DeleteHistoryItem(id)
    \/ ClearHistoryItems

HistorySpec == HistoryInit /\ [][HistoryNext]_vars

(***************************************************************************)
(* ChatMessage (part_000): what is shown for a message and when the effect  *)
(* of lines 88-171 calls mermaid.render.                                   *)
(***************************************************************************)
\* renderMermaidContent (lines 203-293): the spinner, the error, the "No
\* Diagram Generated" note, the diagram container with the raw script, or
\* the bare content
renderMermaidContent(message) ==
    IF message.role = "mermaid"
    THEN IF message.isProcessing THEN "processing"
         ELSE IF message.error # << >> THEN "error"
         ELSE IF message.mermaidScript # << >>
         THEN IF message.mermaidScript = NO_DIAGRAM
              THEN "noDiagram" ELSE "diagram"
         ELSE "content"
    ELSE "content"

\* diagramRef.current: the container is part of the diagram view only
diagramRef(message) == renderMermaidContent(message) = "diagram"

\* the effect of lines 90-112: the calls of mermaid.render it makes
renderEffect(message) ==
    IF /\ message.role = "mermaid"
       /\ message.mermaidScript # << >>
       /\ diagramRef(message)
    THEN IF message.mermaidScript = NO_DIAGRAM
         THEN {}
         ELSE {[id |-> message.id, script |-> Trim(message.mermaidScript)]}
    ELSE {}

\* ChatContainer renders a ChatMessage for each message of the conversation
Rendered(messages) ==
    UNION {renderEffect(messages[k]) : k \in 1..Len(messages)}

(***************************************************************************)
(* HomePage (part_001).  A handler sees the state of the render it was     *)
(* created in: handleSearch and handleGenerateWorkflow keep the             *)
(* conversation and the conversationId of the moment they were called,     *)
(* while the functional updates setConversation(prev => ...) work on the   *)
(* state of the moment they run.  The saves are deferred by setTimeout.    *)
(***************************************************************************)
\* what generateMermaidScriptFromConversation resolves with
GenerationResults == {NO_DIAGRAM, GoodScript}

\* what it rejects with: a message of userMessages, or another one
GenerationErrors ==
    { Error(userMessages.timeoutError), Error(<<"I","n","t","e","r","n","a","l"," ","S","e","r","v","e","r"," ","E","r","r","o","r">>) }

HomeInit ==
    /\ apiKey \in ApiKeys
    /\ conversationHistory = << >>
    /\ NotInvoked
    /\ NoScript
    /\ NoPage
    /\ NoHistory

\* the page is rendered again with the new conversation, and the effects of
\* its ChatMessage components run
Render(messages) ==
    /\ conversation' = messages
    /\ renderCalls' = renderCalls \cup Rendered(messages)

\* reset (lines 71-77)
reset ==
    /\ Render(<< >>)
    /\ conversationId' = 0
    /\ pageError' = "null"
    /\ isSearching' = FALSE
    /\ isGeneratingWorkflow' = FALSE
    /\ UNCHANGED <<apiKey, conversationHistory, orchVars, backendVars,
                   scriptVars, historyVars, searches, generations, uuids>>

\* startNewChat (lines 82-114): the conversation shown is saved, then a new
\* one with a new id is started
startNewChat ==
    /\ uuids < MaxChats
    /\ store' = IF Len(conversation) > 0 /\ conversationId # 0
                THEN upsertHistoryItem(store,
                         HistoryItem(conversationId, conversation))
                ELSE store
    /\ Render(<< >>)
    /\ uuids' = uuids + 1
    /\ conversationId' = uuids + 1
    /\ pageError' = "null"
    /\ isSearching' = FALSE
    /\ isGeneratingWorkflow' = FALSE
    /\ UNCHANGED <<apiKey, conversationHistory, orchVars, backendVars,
                   scriptVars, lastCall, searches, generations>>

\* handleSearch up to its await (lines 298-347), as the k-th call of it
handleSearch(k) ==
    /\ searches[k].stage = "none"
    /\ \A j \in 1..(k - 1) : searches[j].stage # "none"
    /\ UNCHANGED <<apiKey, conversationHistory, orchVars, backendVars,
                   scriptVars, historyVars, generations,
                   isGeneratingWorkflow>>
    /\ IF ~validateApiKey(apiKey)
       THEN /\ pageError' = "validation_error"
            /\ searches' = [searches EXCEPT ![k].stage = "refused"]
            /\ UNCHANGED <<conversation, conversationId, isSearching, uuids,
                           renderCalls>>
       ELSE /\ conversationId = 0 => uuids < MaxChats
            /\ IF conversationId = 0
               THEN /\ uuids' = uuids + 1
                    /\ conversationId' = uuids + 1
               ELSE UNCHANGED <<uuids, conversationId>>
            /\ Render(Append(conversation, userMessage(k)))
            /\ isSearching' = TRUE
            /\ pageError' = "null"
            /\ searches' = [searches EXCEPT ![k] =
                  [stage          |-> "awaiting",
                   conversation   |-> conversation,
                   conversationId |-> conversationId,
                   mermaidScript  |-> << >>]]

\* generateGeminiCompletion resolves with a reply (lines 349-382, 396-398):
\* the assistant message is added and the save is deferred
SearchReply(k) ==
    /\ searches[k].stage = "awaiting"
    /\ Render(Append(conversation, assistantMessage(k)))
    /\ isSearching' = FALSE
    /\ searches' = [searches EXCEPT ![k].stage = "saving"]
    /\ UNCHANGED <<apiKey, conversationHistory, orchVars, backendVars,
                   scriptVars, historyVars, generations, conversationId,
                   isGeneratingWorkflow, pageError, uuids>>

\* generateGeminiCompletion rejects or resolves with nothing (lines 349-351,
\* 384-398)
SearchFail(k) ==
    /\ searches[k].stage = "awaiting"
    /\ pageError' = "api_error"
    /\ isSearching' = FALSE
    /\ searches' = [searches EXCEPT ![k].stage = "failed"]
    /\ UNCHANGED <<apiKey, conversationHistory, orchVars, backendVars,
                   scriptVars, historyVars, generations, conversation,
                   conversationId, isGeneratingWorkflow, uuids, renderCalls>>

\* the setTimeout callback of handleSearch (lines 365-382)
SearchSave(k) ==
    /\ searches[k].stage = "saving"
    /\ store' = IF searches[k].conversationId # 0
                THEN upsertHistoryItem(store,
                         HistoryItem(searches[k].conversationId,
                                     searches[k].conversation
                                       \o << userMessage(k),
                                             assistantMessage(k) >>))
                ELSE store
    /\ searches' = [searches EXCEPT ![k].stage = "done"]
    /\ UNCHANGED <<apiKey, conversationHistory, orchVars, backendVars,
                   scriptVars, lastCall, generations, conversation,
                   conversationId, isSearching, isGeneratingWorkflow,
                   pageError, uuids, renderCalls>>

\* the button is offered (line 428 and the two layouts)
canGenerateWorkflow == ~isGeneratingWorkflow /\ Len(conversation) > 0

\* handleGenerateWorkflow up to its await (lines 167-198), as the g-th call
handleGenerateWorkflow(g) ==
    /\ canGenerateWorkflow
    /\ generations[g].stage = "none"
    /\ \A j \in 1..(g - 1) : generations[j].stage # "none"
    /\ isGeneratingWorkflow' = TRUE
    /\ pageError' = "null"
    /\ Render(Append(conversation, initialMermaidMessage(g)))
    /\ generations' = [generations EXCEPT ![g] =
          [stage          |-> "awaiting",
           conversation   |-> conversation,
           conversationId |-> conversationId,
           mermaidScript  |-> << >>]]
    /\ UNCHANGED <<apiKey, conversationHistory, orchVars, backendVars,
                   scriptVars, historyVars, searches, conversationId,
                   isSearching, uuids>>

\* the message of the g-th generation once it has a script (lines 203-225,
\* 230-237)
generatedMessage(message, mermaidScript) ==
    [message EXCEPT
       !.content = IF mermaidScript = NO_DIAGRAM
                   THEN userMessages.noDiagramPossible
                   ELSE userMessages.generationSuccess,
       !.mermaidScript = mermaidScript,
       !.isProcessing = FALSE]

\* the generation resolves (lines 198-253, 289-291)
GenerationReturns(g, mermaidScript) ==
    /\ generations[g].stage = "awaiting"
    /\ Render([k \in 1..Len(conversation) |->
                 IF conversation[k].id = mermaidMessageId(g)
                 THEN generatedMessage(conversation[k], mermaidScript)
                 ELSE conversation[k]])
    /\ isGeneratingWorkflow' = FALSE
    /\ generations' = [generations EXCEPT ![g].stage = "saving",
                                          ![g].mermaidScript = mermaidScript]
    /\ UNCHANGED <<apiKey, conversationHistory, orchVars, backendVars,
                   scriptVars, historyVars, searches, conversationId,
                   isSearching, pageError, uuids>>

\* the message the catch block shows (lines 258-268)
errorMessage(error) ==
    IF error.isError /\ error.message \in UserMessageValues
    THEN error.message
    ELSE userMessages.generationFailed

\* lines 271-280: every mermaid message that is processing is marked
markFailed(g, message, text) ==
    IF message.role = "mermaid" /\ message.isProcessing
    THEN [message EXCEPT !.content = text, !.error = text,
                         !.isProcessing = FALSE]
    ELSE message

\* the generation rejects (lines 255-291)
GenerationThrows(g, error) ==
    /\ generations[g].stage = "awaiting"
    /\ Render([k \in 1..Len(conversation) |->
                 markFailed(g, conversation[k], errorMessage(error))])
    /\ pageError' = "api_error"
    /\ isGeneratingWorkflow' = FALSE
    /\ generations' = [generations EXCEPT ![g].stage = "failed"]
    /\ UNCHANGED <<apiKey, conversationHistory, orchVars, backendVars,
                   scriptVars, historyVars, searches, conversationId,
                   isSearching, uuids>>

\* the setTimeout callback of handleGenerateWorkflow (lines 228-253)
GenerationSave(g) ==
    /\ generations[g].stage = "saving"
    /\ store' = IF generations[g].conversationId # 0
                THEN upsertHistoryItem(store,
                         HistoryItem(generations[g].conversationId,
                                     Append(generations[g].conversation,
                                            generatedMessage(
                                              initialMermaidMessage(g),
                                              generations[g].mermaidScript))))
                ELSE store
    /\ generations' = [generations EXCEPT ![g].stage = "done"]
    /\ UNCHANGED <<apiKey, conversationHistory, orchVars, backendVars,
                   scriptVars, lastCall, searches, conversation,
                   conversationId, isSearching, isGeneratingWorkflow,
                   pageError, uuids, renderCalls>>

HomeNext ==
    \/ reset
    \/ startNewChat
    \/ \E k \in 1..MaxSearches : handleSearch(k)
    \/ \E k \in 1..MaxSearches : SearchReply(k)
    \/ \E k \in 1..MaxSearches : SearchFail(k)
    \/ \E k \in 1..MaxSearches : SearchSave(k)
    \/ \E g \in 1..MaxGenerations : handleGenerateWorkflow(g)
    \/ \E g \in 1..MaxGenerations :
         \E mermaidScript \in GenerationResults :
           GenerationReturns(g, mermaidScript)
    \/ \E g \in 1..MaxGenerations :
         \E error \in GenerationErrors : GenerationThrows(g, error)
    \/ \E g \in 1..MaxGenerations : GenerationSave(g)

HomeSpec == HomeInit /\ [][HomeNext]_vars

(***************************************************************************)
(* Properties.                                                             *)
(***************************************************************************)
Range(seq) == {seq[k] : k \in 1..Len(seq)}

Last(seq) == seq[Len(seq)]

TimeoutFailure == Error(userMessages.timeoutError)

\* the step in which the awaited race of attempt i is settled by its timer
TimedOut(i) ==
    /\ race[i] = "pending"
    /\ timer[i] = "armed"
    /\ timer'[i] = "fired"

\* the step in which the awaited attempt i receives the whole response
Responded(i) ==
    /\ race[i] = "pending"
    /\ request[i].state = "inflight"
    /\ request'[i].state = "returned"

\* the step logs error for attempt i (console.error of the catch block)
Logged(i, error) == consoleErrors' = Append(consoleErrors, <<i, error>>)

\* the step starts attempt i + 1 and surfaces nothing
Retried(i) ==
    /\ pc' = "awaiting"
    /\ attempt' = i + 1
    /\ execCalls' = i + 1
    /\ request'[i + 1].state = "inflight"
    /\ returned' = << >>
    /\ thrown' = << >>

\* C1: whenever the invocation resolves, the value is the NO_DIAGRAM
\* sentinel or a script that cleanMermaidScript produced from a response and
\* for which validateMermaidScript was called and returned true.
C1_ReturnedIsValidated ==
    \A k \in 1..Len(returned) :
        \/ returned[k] = NO_DIAGRAM
        \/ /\ returned[k] \in validateCalls
           /\ validateMermaidScript(returned[k])
           /\ \E raw \in cleanCalls : cleanMermaidScript(raw) = returned[k]

\* a response wrapped in a code fence was cleaned, validated and returned
C1_Witness ==
    /\ pc = "done"
    /\ Len(returned) = 1
    /\ returned[1] # NO_DIAGRAM
    /\ returned[1] \notin cleanCalls

\* C2: an invocation has exactly one terminal outcome, a value or a
\* failure and never both; once it is reached no attempt is started and the
\* outcome is not replaced.
C2_OneTerminalOutcome ==
    [][ /\ pc' = "done" => Len(returned') + Len(thrown') = 1
        /\ pc' # "done" => Len(returned') + Len(thrown') = 0
        /\ pc = "done" => /\ pc' = "done"
                          /\ returned' = returned
                          /\ thrown' = thrown
                          /\ attempt' = attempt
                          /\ execCalls' = execCalls ]_vars

\* the invocation has ended while a request it abandoned is still in flight
C2_Witness ==
    /\ pc = "done"
    /\ Len(returned) + Len(thrown) = 1
    /\ \E i \in Attempts : request[i].state = "inflight" /\ timer[i] = "fired"

\* C3: the attempt index starts at 1, grows by exactly 1 from one attempt to
\* the next, never exceeds maxRetryAttempts, and the executor is called once
\* per index, so at most maxRetryAttempts times.
C3_AttemptIndex ==
    /\ [](/\ attempt \in 0..maxRetryAttempts
          /\ execCalls = attempt
          /\ execCalls <= maxRetryAttempts)
    /\ [][ /\ attempt' # attempt => attempt' = attempt + 1
           /\ execCalls' # execCalls => /\ execCalls' = execCalls + 1
                                        /\ attempt' = attempt + 1 ]_vars

\* the whole budget was used
C3_Witness ==
    /\ attempt = maxRetryAttempts
    /\ execCalls = maxRetryAttempts
    /\ pc = "done"

\* C4 as claimed: after the backend rejected the credentials in an attempt
\* i < maxRetryAttempts, the invocation has failed with the authentication
\* message after exactly i executor calls.
C4_AuthNotRetried ==
    \A k \in 1..Len(consoleErrors) :
        (consoleErrors[k][1] < maxRetryAttempts
            /\ IsAuthenticationFailure(consoleErrors[k][2]))
        => /\ pc = "done"
           /\ thrown = << Error(userMessages.authenticationError) >>
           /\ execCalls = consoleErrors[k][1]

\* C4 amended: a rejection of the credentials in an attempt
\* i < maxRetryAttempts is retried like any other executor error (attempt
\* i + 1 is started and nothing is surfaced); only a rejection in attempt
\* maxRetryAttempts fails the invocation, with the authentication message
\* and after maxRetryAttempts executor calls.
C4_AuthRetriedUntilLast ==
    [][ \A e \in BackendErrors : \A i \in Attempts :
          (race[i] = "pending" /\ IsAuthenticationFailure(e) /\ Logged(i, e))
          => IF i < maxRetryAttempts
             THEN Retried(i)
             ELSE /\ pc' = "done"
                  /\ thrown' = << Error(userMessages.authenticationError) >>
                  /\ execCalls' = maxRetryAttempts ]_vars

\* the credentials were rejected in attempt 1 and attempt 2 is running
C4_Witness ==
    /\ Len(consoleErrors) = 1
    /\ consoleErrors[1][1] = 1
    /\ IsAuthenticationFailure(consoleErrors[1][2])
    /\ pc = "awaiting"
    /\ attempt = 2

\* C5: when the awaited attempt i receives a response whose trimmed text is
\* the sentinel, the invocation resolves to NO_DIAGRAM in that step, with
\* exactly i executor calls, and the step calls neither cleanMermaidScript
\* nor validateMermaidScript.
C5_SentinelAccepted ==
    [][ \A i \in Attempts :
          (Responded(i) /\ Trim(request[i].aiResponse) = NO_DIAGRAM)
          => /\ pc' = "done"
             /\ returned' = << NO_DIAGRAM >>
             /\ thrown' = << >>
             /\ execCalls' = i
             /\ cleanCalls' = cleanCalls
             /\ validateCalls' = validateCalls ]_vars

\* the sentinel was accepted in the last attempt, after two failed ones
C5_Witness ==
    /\ returned = << NO_DIAGRAM >>
    /\ execCalls = maxRetryAttempts
    /\ NO_DIAGRAM \notin (cleanCalls \cup validateCalls)

\* no message of the conversation has the role user or assistant
NoEligibleMessage ==
    \A k \in 1..Len(conversationHistory) :
        conversationHistory[k].role \notin {"user", "assistant"}

\* C6 as claimed: a conversation without user or assistant message fails
\* with the no-content message and no executor call.
C6_NoContentFailure ==
    (pc = "done" /\ NoEligibleMessage)
    => /\ thrown = << Error(userMessages.noContentError) >>
       /\ execCalls = 0

\* C6 amended: a conversation without user or assistant message fails before
\* attempt 1, with no executor call: with the no-content message when the
\* API key is configured, and with the authentication message when it is not
\* (the key is checked first).
C6_NoContentAfterKeyCheck ==
    (pc = "done" /\ NoEligibleMessage)
    => /\ execCalls = 0
       /\ attempt = 0
       /\ returned = << >>
       /\ thrown = IF validateApiKey(apiKey)
                   THEN << Error(userMessages.noContentError) >>
                   ELSE << Error(userMessages.authenticationError) >>

\* a conversation with messages of other roles only, and a configured key
C6_Witness ==
    /\ pc = "done"
    /\ validateApiKey(apiKey)
    /\ conversationHistory # << >>
    /\ NoEligibleMessage

\* C7: when the timer of the awaited attempt i fires first, the attempt
\* fails with the timeout error; and whatever the request of an attempt
\* whose race is settled does later (a chunk, the end of the stream, an
\* error) changes nothing of the invocation's state.
C7_LateResponseDiscarded ==
    [][ \A i \in Attempts :
          /\ TimedOut(i) => /\ Logged(i, TimeoutFailure)
                            /\ race'[i] = "settled"
                            /\ returned' = << >>
          /\ (race[i] = "settled" /\ request'[i] # request[i])
             => UNCHANGED <<orchVars, race, timer>> ]_vars

\* attempt i timed out and its response arrived while a later attempt runs
C7_Witness ==
    \E i \in Attempts :
        /\ <<i, TimeoutFailure>> \in Range(consoleErrors)
        /\ request[i].state = "returned"
        /\ pc = "awaiting"
        /\ attempt > i

\* C8 as claimed: every rejection carries a message of userMessages.
C8_FailureInUserMessages ==
    \A k \in 1..Len(thrown) : thrown[k].message \in UserMessageValues

RetriedFailure(e) ==
    \/ e = TimeoutFailure
    \/ e = Error(EmptyResponseMessage)
    \/ e.isError /\ handleGeminiApiError(e) = Error(userMessages.rateLimitError)
    \/ e.isError /\ handleGeminiApiError(e) = Error(userMessages.networkError)

\* C9: when an attempt i < maxRetryAttempts fails with a timeout, an empty
\* response, a rate-limit error or a network error, the invocation goes on
\* with attempt i + 1 and surfaces nothing; the error is logged.  A failure
\* is surfaced by the loop only in attempt maxRetryAttempts.
C9_EarlyFailuresRetried ==
    /\ [][ \A i \in 1..(maxRetryAttempts - 1) :
             /\ TimedOut(i) => Logged(i, TimeoutFailure) /\ Retried(i)
             /\ (Responded(i) /\ Trim(request[i].aiResponse) = << >>)
                => Logged(i, Error(EmptyResponseMessage)) /\ Retried(i)
             /\ \A e \in BackendErrors :
                  (race[i] = "pending" /\ RetriedFailure(e) /\ Logged(i, e))
                  => Retried(i) ]_vars
    /\ []((thrown # << >> /\ execCalls > 0) => attempt = maxRetryAttempts)

\* attempts 1 and 2 failed with two different retried kinds, attempt 3 runs
C9_Witness ==
    /\ Len(consoleErrors) = 2
    /\ RetriedFailure(consoleErrors[1][2])
    /\ RetriedFailure(consoleErrors[2][2])
    /\ consoleErrors[1][2] # consoleErrors[2][2]
    /\ pc = "awaiting"
    /\ attempt = maxRetryAttempts

\* C10: a failure of the loop is the mapping of what the last attempt
\* raised (its executor error or its validation failure), whatever the
\* earlier attempts raised.
C10_LastAttemptDecides ==
    (thrown # << >> /\ execCalls > 0)
    => /\ consoleErrors # << >>
       /\ Last(consoleErrors)[1] = maxRetryAttempts
       /\ \A k \in 1..(Len(consoleErrors) - 1) :
            consoleErrors[k][1] < maxRetryAttempts
       /\ thrown = << handleMermaidGenerationError(Last(consoleErrors)[2]) >>

\* the loop failed and an earlier attempt had raised another kind of error
C10_Witness ==
    /\ thrown # << >>
    /\ Len(consoleErrors) >= 2
    /\ handleMermaidGenerationError(consoleErrors[1][2]) # thrown[1]

\* the trimmed text the awaited attempt i has accumulated
ResponseText(i) == Trim(request[i].aiResponse)

\* the step in which the awaited attempt i returns a text that is neither
\* empty nor the sentinel
ScriptResponded(i) ==
    /\ Responded(i)
    /\ ResponseText(i) # << >>
    /\ ResponseText(i) # NO_DIAGRAM

\* C11: when attempt i returns a non-sentinel text whose cleaned form fails
\* validateMermaidScript, attempt i + 1 is started if i < maxRetryAttempts,
\* and if i = maxRetryAttempts the invocation fails with
\* userMessages.validationFailed and nothing else.
C11_InvalidScript ==
    [][ \A i \in Attempts :
          (ScriptResponded(i)
             /\ ~validateMermaidScript(cleanMermaidScript(ResponseText(i))))
          => IF i < maxRetryAttempts
             THEN Retried(i)
             ELSE /\ pc' = "done"
                  /\ returned' = << >>
                  /\ thrown' = << Error(userMessages.validationFailed) >> ]_vars

\* three responses were cleaned and rejected, and the invocation failed
C11_Witness ==
    /\ pc = "done"
    /\ execCalls = maxRetryAttempts
    /\ thrown = << Error(userMessages.validationFailed) >>
    /\ consoleErrors = << <<maxRetryAttempts, Error(userMessages.validationFailed)>> >>
    /\ \E s \in validateCalls : ~validateMermaidScript(s)

\* C12: when attempt k returns a text whose cleaned form is valid (the
\* attempts before it having failed or returned invalid text), the invocation
\* resolves to that cleaned script and the executor was called exactly k
\* times.
C12_ValidScriptAccepted ==
    [][ \A k \in Attempts :
          (ScriptResponded(k)
             /\ validateMermaidScript(cleanMermaidScript(ResponseText(k))))
          => /\ pc' = "done"
             /\ returned' = << cleanMermaidScript(ResponseText(k)) >>
             /\ thrown' = << >>
             /\ attempt' = k
             /\ execCalls' = k ]_vars

\* two responses were rejected by the validator, nothing else failed, and
\* the third attempt's script was accepted
C12_Witness ==
    /\ pc = "done"
    /\ execCalls = maxRetryAttempts
    /\ consoleErrors = << >>
    /\ Len(returned) = 1
    /\ returned[1] # NO_DIAGRAM
    /\ \E s \in validateCalls : ~validateMermaidScript(s)

\* every attempt of the budget was ended by its timer
AllAttemptsTimedOut ==
    consoleErrors = [i \in Attempts |-> <<i, TimeoutFailure>>]

\* C13: when every attempt times out, the invocation fails with
\* userMessages.timeoutError (neither the network nor the generic message),
\* after exactly maxRetryAttempts executor calls.
C13_AllTimeouts ==
    AllAttemptsTimedOut
    => /\ pc = "done"
       /\ returned = << >>
       /\ thrown = << Error(userMessages.timeoutError) >>
       /\ thrown # << Error(userMessages.networkError) >>
       /\ thrown # << Error(userMessages.generationFailed) >>
       /\ execCalls = maxRetryAttempts
       /\ \A i \in Attempts : timer[i] = "fired"

\* the three timers have fired, each while its attempt was awaited
C13_Witness ==
    /\ AllAttemptsTimedOut
    /\ \A i \in Attempts : timer[i] = "fired"

\* C14: an attempt whose accumulated response is empty after trimming has
\* failed: nothing is handed to cleanMermaidScript or validateMermaidScript,
\* nothing is returned, the error is logged, and the invocation starts
\* attempt i + 1 if i < maxRetryAttempts and fails otherwise.
C14_EmptyResponseFails ==
    [][ \A i \in Attempts :
          (Responded(i) /\ ResponseText(i) = << >>)
          => /\ UNCHANGED <<cleanCalls, validateCalls>>
             /\ returned' = << >>
             /\ Logged(i, Error(EmptyResponseMessage))
             /\ IF i < maxRetryAttempts
                THEN Retried(i)
                ELSE pc' = "done" /\ Len(thrown') = 1 ]_vars

\* a whitespace-only response was received in the last attempt
C14_Witness ==
    /\ pc = "done"
    /\ Len(thrown) = 1
    /\ consoleErrors # << >>
    /\ Last(consoleErrors) = <<maxRetryAttempts, Error(EmptyResponseMessage)>>
    /\ request[maxRetryAttempts].state = "returned"

\* the step issues the backend request of attempt j
Issued(j) ==
    /\ request[j].state = "none"
    /\ request'[j].state = "inflight"

\* C15: the request of attempt j is issued only when the outcome of every
\* earlier attempt is known (its race is settled), attempts are started in
\* the order of their indices, and at most one attempt is awaited at a time.
C15_SequentialAttempts ==
    /\ [][ \A j \in Attempts :
             Issued(j)
             => /\ j = attempt + 1
                /\ attempt' = j
                /\ race'[j] = "pending"
                /\ \A i \in 1..(j - 1) :
                     /\ request[i].state # "none"
                     /\ race'[i] = "settled"
                /\ \A i \in (j + 1)..maxRetryAttempts :
                     request'[i].state = "none" ]_vars
    /\ [](Cardinality({i \in Attempts : race[i] = "pending"}) <= 1)

\* attempt 2 is awaited while the request of attempt 1, which timed out, is
\* still in flight
C15_Witness ==
    /\ pc = "awaiting"
    /\ attempt = 2
    /\ race[1] = "settled"
    /\ race[2] = "pending"
    /\ request[1].state = "inflight"
    /\ request[2].state = "inflight"

\* attempt numbers up to two beyond the budget
AttemptNumbers == 1..(maxRetryAttempts + 2)

\* the template the claim assigns to attempt number n
TemplateOf(n) ==
    CASE n = 1 -> "primary"
      [] n = 2 -> "secondary"
      [] OTHER -> "fallback"

\* C16: getPromptForAttempt gives attempt 1 the primary template, attempt 2
\* the secondary one and every attempt >= 3 the fallback one; for the text of
\* the conversation the three prompts are pairwise distinct, non-empty and
\* each contains the text; and the request of attempt i carries the prompt
\* selected for i.
C16_PromptSelection ==
    /\ [](pc = "idle" =>
            LET text == conversationContent(conversationHistory)
                prompt == [n \in AttemptNumbers |-> getPromptForAttempt(n, text)]
            IN  /\ \A n \in AttemptNumbers :
                     /\ prompt[n] = promptTemplates(TemplateOf(n), text)
                     /\ prompt[n] # << >>
                     /\ Includes(prompt[n], text)
                /\ prompt[1] # prompt[2]
                /\ prompt[1] # prompt[3]
                /\ prompt[2] # prompt[3])
    /\ [][ \A j \in Attempts :
             Issued(j)
             => request'[j].contents =
                  promptTemplates(TemplateOf(j),
                                  conversationContent(conversationHistory)) ]_vars

\* the three requests of an invocation were issued, the last still in flight
C16_Witness ==
    /\ attempt = maxRetryAttempts
    /\ request[maxRetryAttempts].state = "inflight"
    /\ request[maxRetryAttempts].contents =
         promptTemplates("fallback", conversationContent(conversationHistory))
    /\ request[maxRetryAttempts].contents #
         promptTemplates("secondary", conversationContent(conversationHistory))

\* C17 as claimed: a string shorter than minScriptLength or longer than
\* maxScriptLength is not valid.
C17_LengthOutOfBounds ==
    (verdict # << >>
       /\ (Len(wrappedScript) < minScriptLength
             \/ Len(wrappedScript) > maxScriptLength))
    => verdict[1] = FALSE

\* C17 amended: a string whose length after trimming is less than
\* minScriptLength or more than maxScriptLength is not valid, whatever else
\* it contains.
C17_TrimmedLengthOutOfBounds ==
    (verdict # << >>
       /\ (Len(Trim(wrappedScript)) < minScriptLength
             \/ Len(Trim(wrappedScript)) > maxScriptLength))
    => verdict[1] = FALSE

\* a script that is well formed but one character too long was rejected
C17_Witness ==
    /\ verdict = << FALSE >>
    /\ fence = "none"
    /\ Len(Trim(candidate)) = maxScriptLength + 1
    /\ StartsWith(candidate, GoodScript)

\* the number of positions of s that hold the character c
Occurrences(s, c) == Cardinality({i \in DOMAIN s : s[i] = c})

\* C18: a string in which the number of "[" differs from the number of "]"
\* is not valid.
C18_UnbalancedBrackets ==
    (verdict # << >>
       /\ Occurrences(wrappedScript, "[") # Occurrences(wrappedScript, "]"))
    => verdict[1] = FALSE

\* a flowchart with two opening brackets and one closing bracket was
\* rejected
C18_Witness ==
    /\ verdict = << FALSE >>
    /\ fence = "none"
    /\ Occurrences(candidate, "[") = 2
    /\ Occurrences(candidate, "]") = 1
    /\ StartsWith(candidate, <<"f","l","o","w","c","h","a","r","t"," ","T","D">>)
    /\ Len(candidate) >= minScriptLength

\* rules 1 to 4 of the validator: the length, the diagram type, a structural
\* signal, balanced brackets
RulesOneToFour(s) ==
    LET t == Trim(s)
    IN  /\ Len(t) >= minScriptLength
        /\ Len(t) <= maxScriptLength
        /\ \E type \in validDiagramTypes :
              SubSeq(ToLowerCase(t), 1, Len(type)) = ToLowerCase(type)
        /\ \/ hasBrackets(t)
           \/ hasArrows(t)
           \/ Includes(t, <<"p","a","r","t","i","c","i","p","a","n","t">>)
           \/ Includes(t, <<"c","l","a","s","s">>)
        /\ Occurrences(t, "[") = Occurrences(t, "]")

\* the positions at which a line of t starts
LineStarts(t) == {1} \cup {i + 1 : i \in {k \in 1..Len(t) : IsLineTerminator(t[k])}}

\* the lines of t, without their terminators
Lines(t) ==
    {SubSeq(t, b, CHOOSE e \in (b - 1)..Len(t) :
                    /\ \A k \in b..e : ~IsLineTerminator(t[k])
                    /\ e = Len(t) \/ IsLineTerminator(t[e + 1])) :
       b \in LineStarts(t)}

EndsWith(s, p) == MatchAt(s, Len(s) - Len(p) + 1, p)

\* three dots, and the first bracket after them is a closing one
EllipsisBeforeClosingBracket(t) ==
    \E i \in 1..Len(t) :
        /\ MatchAt(t, i, <<".",".",".">>)
        /\ \E j \in (i + 3)..Len(t) :
            /\ t[j] = "]"
            /\ ~\E k \in (i + 3)..(j - 1) : t[k] = "[" \/ t[k] = "]"

\* the claim's second pattern: a closing bracket and, right after it, the
\* comment marker
CommentRightAfterClosingBracket(t) ==
    \E i \in 1..Len(t) : t[i] = "]" /\ MatchAt(t, i + 1, <<";"," ","%","%">>)

\* the claim's third pattern: a line that holds an arrow and nothing else
LineOfArrowOnly(t) ==
    \E line \in Lines(t) : Trim(line) \in {<<"-","-",">">>, <<"<","-","-">>}

\* C19 as claimed: a script that satisfies rules 1 to 4 is rejected exactly
\* when it contains three dots before a closing bracket, a comment marker
\* right after a closing bracket, or a line that holds only an arrow.
C19_FiveRules ==
    verdict # << >>
    => verdict[1] =
         (/\ RulesOneToFour(wrappedScript)
          /\ ~EllipsisBeforeClosingBracket(Trim(wrappedScript))
          /\ ~CommentRightAfterClosingBracket(Trim(wrappedScript))
          /\ ~LineOfArrowOnly(Trim(wrappedScript)))

\* an opening bracket and, later on the same line, the text "; %%"
CommentAfterBracketOnLine(t) ==
    \E line \in Lines(t) :
        \E i \in 1..Len(line) :
            /\ line[i] = "["
            /\ \E j \in (i + 1)..Len(line) : MatchAt(line, j, <<";"," ","%","%">>)

\* a line that begins with "-->" or ends with "<--", white space aside
LineArrowLacksNode(t) ==
    \E line \in Lines(t) :
        \/ StartsWith(Trim(line), <<"-","-",">">>)
        \/ EndsWith(Trim(line), <<"<","-","-">>)

\* C19 amended: a script is valid exactly when rules 1 to 4 hold and it
\* contains none of: three dots followed, with no bracket in between, by a
\* closing bracket; an opening bracket followed later on the same line by
\* "; %%"; a line that begins with "-->" or ends with "<--" (white space
\* aside).
C19_FiveRulesAsCoded ==
    verdict # << >>
    => verdict[1] =
         (/\ RulesOneToFour(wrappedScript)
          /\ ~EllipsisBeforeClosingBracket(Trim(wrappedScript))
          /\ ~CommentAfterBracketOnLine(Trim(wrappedScript))
          /\ ~LineArrowLacksNode(Trim(wrappedScript)))

\* a script that satisfies rules 1 to 4 was rejected for a line that begins
\* with an arrow and goes on with a node
C19_Witness ==
    /\ verdict = << FALSE >>
    /\ fence = "none"
    /\ RulesOneToFour(candidate)
    /\ LineArrowLacksNode(candidate)
    /\ ~LineOfArrowOnly(candidate)
    /\ ~EllipsisBeforeClosingBracket(candidate)
    /\ ~CommentAfterBracketOnLine(candidate)

\* C20 as claimed: a known-good script wrapped in a code fence, with any
\* language tag or with none, is valid once cleaned.
C20_AnyFence ==
    (cleanedVerdict # << >> /\ fence \in {"plain", "tight", "mermaid", "text"}
       /\ validateMermaidScript(candidate))
    => cleanedVerdict[1] = validateMermaidScript(candidate)

\* C20 amended: a known-good script wrapped in a code fence without a
\* language tag or with the tag mermaid is, once cleaned, the script itself
\* (trimmed), and valid like it.
C20_PlainOrMermaidFence ==
    (cleanedVerdict # << >> /\ fence \in {"plain", "tight", "mermaid"}
       /\ validateMermaidScript(candidate))
    => /\ cleanedVerdict[1] = validateMermaidScript(candidate)
       /\ cleanedOut = << Trim(candidate) >>

\* a known-good script in a fence tagged mermaid: not valid as it is, valid
\* once cleaned
C20_Witness ==
    /\ fence = "mermaid"
    /\ validateMermaidScript(candidate)
    /\ verdict = << FALSE >>
    /\ cleanedOut = << Trim(candidate) >>
    /\ cleanedVerdict = << TRUE >>

(***************************************************************************)
(* C21: a known conversational prefix is removed whether it stands in      *)
(* front of the code fence or right inside it.                             *)
(***************************************************************************)
\* C21: for a bare (valid) script s and a known prefix p, both
\* cleanMermaidScript(p + fence(s)) and cleanMermaidScript(fence(p + s)) are
\* the trimmed s.
C21_PrefixEitherSide ==
    (cleanedOut # << >>
       /\ fence \in {"prefixOutside", "prefixInside", "workflowOutside",
                     "workflowInside"}
       /\ validateMermaidScript(candidate))
    => cleanedOut = << Trim(candidate) >>

(***************************************************************************)
(* C25: the precedence of the classes of a backend error.                  *)
(***************************************************************************)
AuthenticationWords == { <<"a","p","i"," ","k","e","y">>, <<"a","u","t","h","e","n","t","i","c","a","t","i","o","n">>, <<"u","n","a","u","t","h","o","r","i","z","e","d">> }

RateLimitWords == { <<"r","a","t","e"," ","l","i","m","i","t">>, <<"q","u","o","t","a">>, <<"t","o","o"," ","m","a","n","y"," ","r","e","q","u","e","s","t","s">> }

NetworkWords == { <<"n","e","t","w","o","r","k">>, <<"c","o","n","n","e","c","t","i","o","n">>, <<"t","i","m","e","o","u","t">> }

\* the message, whatever its case, holds one of the words
Mentions(message, words) ==
    \E w \in words : Includes(ToLowerCase(message), w)

\* the error the last attempt failed with
LastError == Last(consoleErrors)[2]

\* C25: when the loop fails with an Error of the last attempt, a message of
\* userMessages is surfaced as it is; otherwise a message with an
\* authentication word surfaces authenticationError; otherwise one with a
\* rate-limit word surfaces rateLimitError; otherwise one with a network word
\* surfaces networkError.
C25_ErrorPrecedence ==
    (thrown # << >> /\ execCalls > 0 /\ LastError.isError)
    => IF LastError.message \in UserMessageValues
       THEN thrown = << LastError >>
       ELSE IF Mentions(LastError.message, AuthenticationWords)
       THEN thrown = << Error(userMessages.authenticationError) >>
       ELSE IF Mentions(LastError.message, RateLimitWords)
       THEN thrown = << Error(userMessages.rateLimitError) >>
       ELSE IF Mentions(LastError.message, NetworkWords)
       THEN thrown = << Error(userMessages.networkError) >>
       ELSE TRUE

\* the last attempt failed with a backend error that holds an authentication
\* word and a rate-limit word, and authenticationError was surfaced
C25_Witness ==
    /\ pc = "done"
    /\ execCalls = maxRetryAttempts
    /\ consoleErrors # << >>
    /\ LastError.isError
    /\ LastError.message \notin UserMessageValues
    /\ Mentions(LastError.message, AuthenticationWords)
    /\ Mentions(LastError.message, RateLimitWords)
    /\ thrown = << Error(userMessages.authenticationError) >>

(***************************************************************************)
(* C26: the statement after the retry loop.                                *)
(***************************************************************************)
\* C26: the throw of generationFailed after the loop (line 217) is never
\* run: every invocation leaves the loop by a return or by the throw of the
\* last attempt.
C26_AfterLoopUnreachable ==
    /\ afterLoop = FALSE
    /\ pc = "done" => Len(returned) + Len(thrown) = 1
    /\ attempt <= maxRetryAttempts

\* the last attempt's response failed validation and the invocation was
\* rejected from inside the loop
C26_Witness ==
    /\ pc = "done"
    /\ attempt = maxRetryAttempts
    /\ afterLoop = FALSE
    /\ thrown = << Error(userMessages.validationFailed) >>
    /\ Len(consoleErrors) = 1

(***************************************************************************)
(* C27: termination.                                                       *)
(***************************************************************************)
\* C27: if the armed timers eventually fire, an invocation that awaits an
\* attempt eventually returns or throws, and it never makes more than
\* maxRetryAttempts attempts, whether or not the backend answers.
C27_EventuallyTerminal ==
    /\ [](execCalls <= maxRetryAttempts)
    /\ (pc = "awaiting") ~> (pc = "done")

\* the invocation ended although the backend never answered any of its
\* requests
C27_Witness ==
    /\ pc = "done"
    /\ execCalls = maxRetryAttempts
    /\ \A i \in Attempts :
         /\ request[i].state = "inflight"
         /\ request[i].got = 0
         /\ timer[i] = "fired"
    /\ thrown = << TimeoutFailure >>

(***************************************************************************)
(* C28: requests in flight.                                                *)
(***************************************************************************)
InFlight == {i \in Attempts : request[i].state = "inflight"}

\* C28 as claimed: at most one request of the invocation is in flight at any
\* moment.
C28_OneRequestInFlight == Cardinality(InFlight) <= 1

\* C28 amended: at most one request in flight is still awaited; every other
\* request in flight belongs to an earlier attempt that its timer ended, and
\* it is abandoned, not terminated.
C28_OneAwaitedRequestInFlight ==
    /\ Cardinality({i \in InFlight : race[i] = "pending"}) <= 1
    /\ \A i \in InFlight :
         race[i] = "pending"
         \/ (race[i] = "settled" /\ timer[i] = "fired"
               /\ <<i, TimeoutFailure>> \in Range(consoleErrors))
    /\ \A i \in InFlight : \A j \in Attempts :
         (i < j /\ request[j].state # "none") => race[i] = "settled"

\* the third request is issued while the first two, abandoned by their
\* timers, are still in flight
C28_Witness ==
    /\ pc = "awaiting"
    /\ attempt = 3
    /\ InFlight = {1, 2, 3}
    /\ race = <<"settled", "settled", "pending">>
    /\ timer = <<"fired", "fired", "armed">>

(***************************************************************************)
(* C24: ids in the history store.                                          *)
(***************************************************************************)
\* the items hold pairwise different ids
NoDuplicateIds(items) ==
    \A k, l \in 1..Len(items) : items[k].id = items[l].id => k = l

\* the step is a call of upsertHistoryItem or addHistoryItem with an id that
\* was stored
UpsertOfStoredId ==
    /\ lastCall' # lastCall \/ store' # store
    /\ lastCall'[1] \in {"upsertHistoryItem", "addHistoryItem"}
    /\ \E k \in 1..Len(store) : store[k].id = lastCall'[2].id

\* C24: from an empty store, whatever calls of upsertHistoryItem,
\* addHistoryItem, deleteHistoryItem and clearHistoryItems are made, no two
\* stored items have the same id; an upsert of a stored id replaces that
\* item where it is and leaves the others alone.
C24_NoDuplicateIds ==
    /\ [](NoDuplicateIds(store))
    /\ [][ UpsertOfStoredId
           => /\ Len(store') = Len(store)
              /\ \A k \in 1..Len(store) :
                   store'[k] = IF store[k].id = lastCall'[2].id
                               THEN lastCall'[2] ELSE store[k] ]_vars

\* three items are stored and the one in the middle has just been updated
\* by an upsert of its id
C24_Witness ==
    /\ Len(store) = 3
    /\ lastCall # << >>
    /\ lastCall[1] = "upsertHistoryItem"
    /\ store[2] = lastCall[2]
    /\ Len(store[2].conversation) = 4

(***************************************************************************)
(* C22: the sentinel is not rendered.                                      *)
(***************************************************************************)
\* the mermaid messages shown whose script is the sentinel
SentinelMessages ==
    {k \in 1..Len(conversation) :
       /\ conversation[k].role = "mermaid"
       /\ conversation[k].mermaidScript = NO_DIAGRAM}

\* C22: mermaid.render is never called with the NO_DIAGRAM sentinel, and a
\* mermaid message whose script is the sentinel is shown as the "No Diagram
\* Generated" note.
C22_SentinelNotRendered ==
    /\ \A call \in renderCalls : call.script # NO_DIAGRAM
    /\ \A k \in SentinelMessages :
         renderMermaidContent(conversation[k]) = "noDiagram"

(***************************************************************************)
(* C23: every completed exchange is saved.                                 *)
(***************************************************************************)
\* an item of the store holds the query and the reply of the k-th exchange
ExchangeStored(k) ==
    \E n \in 1..Len(store) :
        /\ userMessage(k) \in Range(store[n].conversation)
        /\ assistantMessage(k) \in Range(store[n].conversation)

\* C23: once an exchange has received its reply and its deferred save has
\* run, the store holds an item with the query and the reply, also for the
\* first exchange of a page whose conversationId was null.
C23_ExchangeSaved ==
    \A k \in 1..MaxSearches :
        searches[k].stage = "done" => ExchangeStored(k)

(***************************************************************************)
(* C29: a generation touches its own message only.                         *)
(***************************************************************************)
\* C29: while a generation is awaited, its mermaid message, if shown, is
\* still processing and carries no error: no other generation's completion
\* has marked it.
C29_OnlyOwnMessage ==
    \A g \in 1..MaxGenerations :
        generations[g].stage = "awaiting"
        => \A k \in 1..Len(conversation) :
             conversation[k].id = mermaidMessageId(g)
             => /\ conversation[k].isProcessing
                /\ conversation[k].error = << >>

(***************************************************************************)
(* C30: overlapping saves.                                                 *)
(***************************************************************************)
\* the k-th exchange and the g-th generation belong to the conversation id
\* and overlapped: one was called while the other was awaited
Overlapped(k, g, id) ==
    /\ id # 0
    /\ searches[k].conversationId = id
    /\ generations[g].conversationId = id
    /\ \/ /\ userMessage(k) \in Range(generations[g].conversation)
          /\ assistantMessage(k) \notin Range(generations[g].conversation)
       \/ initialMermaidMessage(g) \in Range(searches[k].conversation)

\* the item stored for the conversation holds the query, the reply and the
\* finished mermaid message
AllStored(k, g, id) ==
    \E n \in 1..Len(store) :
        /\ store[n].id = id
        /\ userMessage(k) \in Range(store[n].conversation)
        /\ assistantMessage(k) \in Range(store[n].conversation)
        /\ generatedMessage(initialMermaidMessage(g),
                            generations[g].mermaidScript)
             \in Range(store[n].conversation)

\* C30: when an exchange and a generation of one conversation overlapped
\* and both deferred saves have run, the item stored for the conversation
\* holds the query, the reply and the mermaid message.
C30_BothSaved ==
    \A k \in 1..MaxSearches : \A g \in 1..MaxGenerations :
      \A id \in 1..MaxChats :
        (/\ Overlapped(k, g, id)
         /\ searches[k].stage = "done"
         /\ generations[g].stage = "done")
        => AllStored(k, g, id)

=============================================================================
